---- MODULE Spec2Model ----
(***************************************************************************)
(* Model of the Obsidian note-vault tool server (ts/src/obsidian.ts).      *)
(*                                                                         *)
(* Strings that the code inspects character by character (paths, note      *)
(* contents) are sequences of one-character strings.  Response texts are   *)
(* sequences of tokens: the literal fragments of the code's template       *)
(* strings are single tokens, interpolated paths and contents contribute   *)
(* their characters.                                                       *)
(*                                                                         *)
(* Values that are used several times are passed as operator parameters    *)
(* rather than bound by LET.                                               *)
(***************************************************************************)
EXTENDS Naturals, Integers, Sequences, FiniteSets, TLC

VARIABLES
  phase,              \* "boot" | "serving" | "exited" (obsidian.ts:13-35, 351-361)
  vaultArg,           \* OBSIDIAN_VAULT_DIR / argv[2] (obsidian.ts:13); <<>> when absent
  obsidianVaultDir,   \* the vault root (obsidian.ts:20), fixed after startup
  fs,                 \* the file system: absolute path -> directory or file with data
  calls,              \* the handler of every request: id -> its locals and position ("done" once answered)
  out,                \* the responses written to the transport, in order
  reqs,               \* the tool-call requests received so far, request id = position
  reqPath,            \* SpecPath: the notePath handed to validatePath
  resolved,           \* SpecPath: what validatePath returned or threw (None before the call)
  componentInfoCache  \* SpecCache: the Map of shadcn-ui.ts:42, cache key -> component data

vars == <<phase, vaultArg, obsidianVaultDir, fs, calls, out, reqs, reqPath, resolved,
          componentInfoCache>>

None == [ok |-> FALSE, val |-> <<"<none>">>]

----------------------------------------------------------------------------
(* Bounds of the model *)

\* longest requested path explored by SpecPath
MaxPathLen == 5

\* number of tool calls received in one run of Spec
MaxCalls == 2

\* longest paths list handed to read_notes
MaxBatch == 2

\* longest search term explored by SpecSearch
MaxTermLen == 5

\* characters requested paths are built from
Alphabet == {"/", ".", "v", "m", "d"}

\* vault roots explored by SpecPath: results of path.resolve (absolute,
\* normalized, no trailing slash)
Roots == { <<"/">>, <<"/", "v">>, <<"/", "v", ".">> }

Strings(n) == UNION { [1..k -> Alphabet] : k \in 0..n }

----------------------------------------------------------------------------
(* Node's posix path functions, as obsidian.ts uses them *)

Dot == <<".">>
DotDot == <<".", ".">>
Slash == <<"/">>
MD == <<".", "m", "d">>

\* String.prototype.startsWith
startsWith(s, prefix) ==
  /\ Len(prefix) <= Len(s)
  /\ SubSeq(s, 1, Len(prefix)) = prefix

\* String.prototype.endsWith
endsWith(s, suffix) ==
  /\ Len(suffix) <= Len(s)
  /\ SubSeq(s, Len(s) - Len(suffix) + 1, Len(s)) = suffix

SplitStep(prev, ch) ==
  IF ch = "/" THEN Append(prev, <<>>)
  ELSE [prev EXCEPT ![Len(prev)] = Append(@, ch)]

\* the "/"-separated segments of s (empty segments kept)
Split(s) ==
  LET F[i \in 0..Len(s)] ==
        IF i = 0 THEN << <<>> >> ELSE SplitStep(F[i - 1], s[i])
  IN F[Len(s)]

\* segments joined by "/"
JoinSegs(segs) ==
  LET F[i \in 0..Len(segs)] ==
        IF i = 0 THEN <<>>
        ELSE IF i = 1 THEN segs[1]
        ELSE F[i - 1] \o Slash \o segs[i]
  IN F[Len(segs)]

\* one segment of normalizeString: "" and "." are dropped, ".." removes the
\* segment before it (or is kept, above the start of a relative path)
FoldStep(r, seg, allowAboveRoot) ==
  IF seg = <<>> \/ seg = Dot THEN r
  ELSE IF seg = DotDot
    THEN IF Len(r) > 0 /\ r[Len(r)] # DotDot
           THEN SubSeq(r, 1, Len(r) - 1)
           ELSE IF allowAboveRoot THEN Append(r, DotDot) ELSE r
    ELSE Append(r, seg)

FoldSegs(segs, allowAboveRoot) ==
  LET G[i \in 0..Len(segs)] ==
        IF i = 0 THEN <<>> ELSE FoldStep(G[i - 1], segs[i], allowAboveRoot)
  IN G[Len(segs)]

\* path.normalize's normalizeString: resolve "." and ".." segments and
\* collapse repeated separators
normalizeString(path, allowAboveRoot) ==
  JoinSegs(FoldSegs(Split(path), allowAboveRoot))

\* path.isAbsolute
isAbsolute(path) == Len(path) > 0 /\ path[1] = "/"

normalizeBody(path, body) ==
  IF Len(body) = 0
    THEN IF isAbsolute(path) THEN Slash
         ELSE IF path[Len(path)] = "/" THEN <<".", "/">> ELSE Dot
    ELSE (IF isAbsolute(path) THEN Slash ELSE <<>>) \o body
         \o (IF path[Len(path)] = "/" THEN Slash ELSE <<>>)

\* path.normalize: a trailing separator is kept
normalize(path) ==
  IF Len(path) = 0 THEN Dot
  ELSE normalizeBody(path, normalizeString(path, ~isAbsolute(path)))

\* path.join(a, b): the non-empty arguments joined by "/" and normalized
join(a, b) ==
  IF Len(a) = 0 /\ Len(b) = 0 THEN Dot
  ELSE normalize(IF Len(a) = 0 THEN b
                 ELSE IF Len(b) = 0 THEN a
                 ELSE a \o Slash \o b)

\* the non-empty segments of a path
Segments(path) == SelectSeq(Split(path), LAMBDA seg : seg # <<>>)

LastOf(segs) == IF Len(segs) = 0 THEN <<>> ELSE segs[Len(segs)]

\* the last component of path, trailing separators ignored
lastComponent(path) == LastOf(Segments(path))

\* the position of the last "." of base, 0 when it has none
LastDot(base) ==
  LET F[i \in 0..Len(base)] ==
        IF i = 0 THEN 0 ELSE IF base[i] = "." THEN i ELSE F[i - 1]
  IN F[Len(base)]

extFrom(base, startDot) ==
  IF startDot <= 1 \/ base = DotDot THEN <<>>
  ELSE SubSeq(base, startDot, Len(base))

\* path.extname: from the last "." of the last component to its end; empty
\* when there is no ".", when the "." is the component's first character,
\* or when the component is ".."
extname(path) == extFrom(lastComponent(path), LastDot(lastComponent(path)))

stripTrailing(n) ==
  IF Len(n) > 1 /\ n[Len(n)] = "/" THEN SubSeq(n, 1, Len(n) - 1) ELSE n

\* path.resolve of an absolute path: normalized, without trailing separator
resolve(path) == stripTrailing(normalize(path))

dirnameAt(path, end) ==
  IF end = 0 THEN (IF path[1] = "/" THEN Slash ELSE Dot)
  ELSE IF path[1] = "/" /\ end = 2 THEN <<"/", "/">>
  ELSE SubSeq(path, 1, end - 1)

\* path.dirname's scan: the position of the separator that ends the
\* directory part, 0 when there is none
dirnameEnd(path) ==
  LET Scan[i \in 1..Len(path), matchedSlash \in BOOLEAN] ==
        IF i < 2 THEN 0
        ELSE IF path[i] = "/"
          THEN IF ~matchedSlash THEN i ELSE Scan[i - 1, TRUE]
          ELSE Scan[i - 1, FALSE]
  IN Scan[Len(path), TRUE]

\* path.dirname
dirname(path) ==
  IF Len(path) = 0 THEN Dot ELSE dirnameAt(path, dirnameEnd(path))

\* the number of leading segments f and t share
CommonLen(f, t) ==
  LET F[i \in 0..Len(f)] ==
        IF i = 0 THEN 0
        ELSE IF F[i - 1] = i - 1 /\ i <= Len(t) /\ f[i] = t[i] THEN i
        ELSE F[i - 1]
  IN F[Len(f)]

relativeFrom(f, t, k) ==
  JoinSegs([i \in 1..(Len(f) - k) |-> DotDot] \o SubSeq(t, k + 1, Len(t)))

relativeSegs(f, t) == relativeFrom(f, t, CommonLen(f, t))

\* path.relative(from, to) for absolute paths: ".." for every segment of
\* from below the common ancestor, then the rest of to
relative(from, to) == relativeSegs(Segments(resolve(from)), Segments(resolve(to)))

----------------------------------------------------------------------------
(* validatePath, obsidian.ts:38-54 *)

\* lines 40-42
fullPathOf(vault, notePath) ==
  IF isAbsolute(notePath) THEN normalize(notePath) ELSE join(vault, notePath)

\* the containment check always passes
withinVault_Always(vault, fullPath) == TRUE

\* line 45
withinVault(vault, fullPath) == startsWith(fullPath, vault)

\* lines 50-51
withMdExt(fullPath) ==
  IF extname(fullPath) = MD THEN fullPath ELSE fullPath \o MD

\* line 46
AccessDenied(fullPath) ==
  <<"Access denied - path outside Obsidian vault: ">> \o fullPath

validateFull(vault, fullPath) ==
  IF ~withinVault(vault, fullPath)
    THEN [ok |-> FALSE, val |-> AccessDenied(fullPath)]
    ELSE [ok |-> TRUE, val |-> withMdExt(fullPath)]

\* [ok |-> TRUE, val |-> validPath] on return,
\* [ok |-> FALSE, val |-> message] when it throws
validatePath(vault, notePath) == validateFull(vault, fullPathOf(vault, notePath))

----------------------------------------------------------------------------
(* The file system behind fs/promises.  A path maps to a directory or to a  *)
(* file with its data; every operation returns [ok, val, fs]: the value or  *)
(* the error message, and the file system it leaves.  fault is an           *)
(* environment failure (permissions, device) of that one operation.         *)

DirNode == [kind |-> "dir", data |-> <<>>]
FileNode(data) == [kind |-> "file", data |-> data]

\* the path a name resolves to: a trailing separator dropped
Key(p) == stripTrailing(p)

AncestorsOf(segs) ==
  { Slash \o JoinSegs(SubSeq(segs, 1, i)) : i \in 0..(Len(segs) - 1) }

\* the directories above k, up to the root
Ancestors(k) == AncestorsOf(Segments(k))

ErrText(code) ==
  CASE code = "ENOENT" -> ": no such file or directory, "
    [] code = "ENOTDIR" -> ": not a directory, "
    [] code = "EISDIR" -> ": illegal operation on a directory, "
    [] code = "EEXIST" -> ": file already exists, "
    [] OTHER -> ": permission denied, "

\* the message of a Node SystemError
ErrMsg(code, syscall, p) == <<code, ErrText(code), syscall, " '">> \o p \o <<"'">>

IsFile(f, k) == k \in DOMAIN f /\ f[k].kind = "file"
IsDir(f, k) == k \in DOMAIN f /\ f[k].kind = "dir"

WalkCode(f, above) ==
  IF \E a \in above : IsFile(f, a) THEN "ENOTDIR"
  ELSE IF \E a \in above : a \notin DOMAIN f THEN "ENOENT"
  ELSE ""

\* the error of walking to k's parent, "" when every ancestor is a directory
PathFault(f, k) == WalkCode(f, Ancestors(k))

Failed(f, code, syscall, p) == [ok |-> FALSE, val |-> ErrMsg(code, syscall, p), fs |-> f]

\* the error of opening p for reading or of unlinking it
ExistingFileCode(f, p, walk) ==
  IF walk # "" THEN walk
  ELSE IF Key(p) \notin DOMAIN f THEN "ENOENT"
  ELSE IF IsDir(f, Key(p)) THEN "EISDIR"
  ELSE IF Key(p) # p THEN "ENOTDIR"
  ELSE ""

ReadResult(f, p, code) ==
  IF code = "" THEN [ok |-> TRUE, val |-> f[Key(p)].data, fs |-> f]
  ELSE Failed(f, code, "open", p)

\* fs.readFile(p, 'utf-8')
fsReadFile(f, p, fault) ==
  ReadResult(f, p, IF fault THEN "EACCES"
                   ELSE ExistingFileCode(f, p, PathFault(f, Key(p))))

WriteCode(f, p, walk) ==
  IF walk # "" THEN walk
  ELSE IF IsDir(f, Key(p)) THEN "EISDIR"
  ELSE IF Key(p) # p THEN (IF Key(p) \in DOMAIN f THEN "ENOTDIR" ELSE "EISDIR")
  ELSE ""

WriteResult(f, p, data, code) ==
  IF code = ""
    THEN [ok |-> TRUE, val |-> <<>>,
          fs |-> [q \in DOMAIN f \cup {p} |-> IF q = p THEN FileNode(data) ELSE f[q]]]
    ELSE Failed(f, code, "open", p)

\* fs.writeFile(p, data, 'utf-8'): creates or replaces the file
fsWriteFile(f, p, data, fault) ==
  WriteResult(f, p, data, IF fault THEN "EACCES"
                          ELSE WriteCode(f, p, PathFault(f, Key(p))))

UnlinkResult(f, p, code) ==
  IF code = ""
    THEN [ok |-> TRUE, val |-> <<>>, fs |-> [q \in DOMAIN f \ {p} |-> f[q]]]
    ELSE Failed(f, code, "unlink", p)

\* fs.unlink(p)
fsUnlink(f, p, fault) ==
  UnlinkResult(f, p, IF fault THEN "EACCES"
                     ELSE ExistingFileCode(f, p, PathFault(f, Key(p))))

MkdirCode(f, k, above) ==
  IF \E a \in above : IsFile(f, a) THEN "ENOTDIR"
  ELSE IF IsFile(f, k) THEN "EEXIST"
  ELSE ""

MkdirResult(f, p, chain, code) ==
  IF code = ""
    THEN [ok |-> TRUE, val |-> <<>>,
          fs |-> [q \in DOMAIN f \cup chain |-> IF q \in DOMAIN f THEN f[q] ELSE DirNode]]
    ELSE Failed(f, code, "mkdir", p)

\* fs.mkdir(p, { recursive: true }): creates p and its missing ancestors
fsMkdirRecursive(f, p, fault) ==
  MkdirResult(f, p, {Key(p)} \cup Ancestors(Key(p)),
              IF fault THEN "EACCES" ELSE MkdirCode(f, Key(p), Ancestors(Key(p))))

StatResult(f, p, code) ==
  IF code = "" THEN [ok |-> TRUE, val |-> <<f[Key(p)].kind>>, fs |-> f]
  ELSE Failed(f, code, "stat", p)

StatCode(f, p, walk) ==
  IF walk # "" THEN walk
  ELSE IF Key(p) \notin DOMAIN f THEN "ENOENT"
  ELSE ""

\* fs.stat(p): val is <<"dir">> or <<"file">>
fsStat(f, p, fault) ==
  StatResult(f, p, IF fault THEN "EACCES" ELSE StatCode(f, p, PathFault(f, Key(p))))

\* the Dirents of directory k: name and kind of every path directly below it
DirEntries(f, k) ==
  { [name |-> lastComponent(q), kind |-> f[q].kind] :
      q \in { x \in DOMAIN f : x # Slash /\ dirname(x) = k } }

ReaddirCode(f, p, walk) ==
  IF walk # "" THEN walk
  ELSE IF Key(p) \notin DOMAIN f THEN "ENOENT"
  ELSE IF IsFile(f, Key(p)) THEN "ENOTDIR"
  ELSE ""

ReaddirResult(f, p, code) ==
  IF code = "" THEN [ok |-> TRUE, val |-> <<>>, fs |-> f]
  ELSE Failed(f, code, "scandir", p)

\* fs.readdir(p, { withFileTypes: true }); the entries are DirEntries(f, Key(p))
fsReaddir(f, p, fault) ==
  ReaddirResult(f, p, IF fault THEN "EACCES" ELSE ReaddirCode(f, p, PathFault(f, Key(p))))

\* the orders in which the operating system may list a set of entries
Orderings(S) ==
  { o \in [1..Cardinality(S) -> S] : \A i, j \in 1..Cardinality(S) : o[i] = o[j] => i = j }

----------------------------------------------------------------------------
(* Tool-call arguments and the zod schemas, obsidian.ts:57-89 *)

\* an untyped argument value: its JSON type and, by type, its payload
Undef == [t |-> "undefined", s |-> <<>>, b |-> FALSE, xs |-> <<>>]
StrV(s) == [t |-> "string", s |-> s, b |-> FALSE, xs |-> <<>>]
BoolV(b) == [t |-> "boolean", s |-> <<>>, b |-> b, xs |-> <<>>]
NumV == [t |-> "number", s |-> <<>>, b |-> FALSE, xs |-> <<>>]
ArrV(xs) == [t |-> "array", s |-> <<>>, b |-> FALSE, xs |-> xs]

NoArgs == [path |-> Undef, content |-> Undef, append |-> Undef,
           paths |-> Undef, query |-> Undef]

\* one issue of a ZodError, as it prints
Issue(field, v, expected) ==
  IF v.t = "undefined" THEN <<field, ": Required; ">>
  ELSE <<field, ": Expected ", expected, ", received ", v.t, "; ">>

\* a value of any type passes, only a missing one is reported
Expect_Lenient(field, v, expected) ==
  IF v.t = "undefined" THEN Issue(field, v, expected) ELSE <<>>

\* z.string(), z.boolean(), z.array(...): one issue unless the type is the expected one
Expect(field, v, expected) ==
  IF v.t = expected THEN <<>> ELSE Issue(field, v, expected)

\* the result of safeParse: success with the typed data, or the issues
Parsed(error, data) ==
  [success |-> error = <<>>, error |-> error,
   path |-> data.path.s, content |-> data.content.s,
   append |-> data.append.b, paths |-> data.paths.xs, query |-> data.query.s]

\* lines 57-69
WriteNoteArgsSchema(args) ==
  Parsed(Expect("path", args.path, "string")
           \o Expect("content", args.content, "string")
           \o (IF args.append.t = "undefined" THEN <<>>
               ELSE Expect("append", args.append, "boolean")),
         [args EXCEPT !.append = IF @.t = "boolean" THEN @ ELSE BoolV(FALSE)])

\* lines 71-77
DeleteNoteArgsSchema(args) ==
  Parsed(Expect("path", args.path, "string"), args)

\* lines 79-83
ReadNotesArgsSchema(args) ==
  Parsed(Expect("paths", args.paths, "array"), args)

\* lines 85-89
SearchNotesArgsSchema(args) ==
  Parsed(Expect("query", args.query, "string"), args)

----------------------------------------------------------------------------
(* Inputs of the model *)

\* note paths that tool calls request
NotePaths == { <<"a">>, <<"a", ".", "m", "d">>, <<"d", "/", "a">>,
               <<".", ".", "/", "x">> }

Contents == { <<"A">>, <<"B">> }

\* the environment at process start: "/v" is a directory, "/f" a file
BaseFs ==
  [q \in {Slash, <<"/", "v">>, <<"/", "f">>} |->
     IF q = <<"/", "f">> THEN FileNode(<<"F">>) ELSE DirNode]

\* a vault with a hidden directory that holds a note, and a directory named
\* like a note that holds a file that is no note
HiddenFs ==
  [q \in DOMAIN BaseFs \cup { <<"/", "v", "/", ".", "h">>,
                               <<"/", "v", "/", ".", "h", "/", "a", ".", "m", "d">>,
                               <<"/", "v", "/", "d">>,
                               <<"/", "v", "/", "d", "/", "a", ".", "m", "d">>,
                               <<"/", "v", "/", "d", "/", "a", ".", "m", "d", "/", "a">> } |->
     IF q \in DOMAIN BaseFs THEN BaseFs[q]
     ELSE IF q \in { <<"/", "v", "/", ".", "h">>, <<"/", "v", "/", "d">>,
                     <<"/", "v", "/", "d", "/", "a", ".", "m", "d">> }
       THEN DirNode
     ELSE FileNode(<<"A">>)]

InitialFileSystems ==
  { BaseFs,
    [q \in DOMAIN BaseFs \cup {<<"/", "v", "/", "a", ".", "m", "d">>} |->
       IF q \in DOMAIN BaseFs THEN BaseFs[q] ELSE FileNode(<<"A">>)],
    HiddenFs }

\* the configured vault directory: absent, a directory, a file, missing
VaultArgs == { <<>>, <<"/", "v">>, <<"/", "f">>, <<"/", "n">> }

WriteNoteInputs ==
  { [NoArgs EXCEPT !.path = StrV(p), !.content = StrV(c), !.append = a] :
      p \in NotePaths, c \in Contents, a \in {Undef, BoolV(TRUE), BoolV(FALSE)} }
  \cup { NoArgs, [NoArgs EXCEPT !.path = NumV, !.content = StrV(<<"A">>)] }

DeleteNoteInputs ==
  { [NoArgs EXCEPT !.path = StrV(p)] : p \in NotePaths } \cup { NoArgs }

PathLists == UNION { [1..n -> NotePaths] : n \in 0..MaxBatch }

ReadNotesInputs ==
  { [NoArgs EXCEPT !.paths = ArrV(ps)] : ps \in PathLists }
  \cup { NoArgs, [NoArgs EXCEPT !.paths = StrV(<<"a">>)] }

\* search terms: literal ones, regular expressions, and terms of regex shape
\* that match fails on or that RegExp rejects
Queries == { <<"a">>, <<"A">>, <<"/", "^", "a", "$", "/">>, <<"/", "A", "/", "i">>,
             <<"/", "[", "/">>, <<"/">>, <<"/", "a", "/", "m">> }

SearchNotesInputs ==
  { [NoArgs EXCEPT !.query = StrV(q)] : q \in Queries } \cup { NoArgs }

\* lines 105-133: the tools that ListTools advertises
ToolNames == { "write_note", "delete_note", "read_notes", "search_notes" }

\* tool names that requests carry: the four of the registry and others
Names == { "write_note", "delete_note", "read_notes", "search_notes",
           "list_notes", "" }

----------------------------------------------------------------------------
(* The call handler, obsidian.ts:203-348 *)

\* the '\\n' of the source's string literals: a backslash and an n
CodeNewline == <<"\\", "n">>

\* line 227: the separator written between the existing and the new content
AppendSeparator == CodeNewline \o CodeNewline

\* line 306: results.join('\\n---\\n')
EntrySeparator == CodeNewline \o <<"-", "-", "-">> \o CodeNewline

\* the locals of a handler
NewCall(name) ==
  [name |-> name, pc |-> "", validPath |-> <<>>, content |-> <<>>,
   append |-> FALSE, existingContent |-> <<>>, notePaths |-> <<>>,
   results |-> <<>>, searchTerm |-> <<>>, dirPath |-> <<>>, frames |-> <<>>]

Reply(id, isError, text) ==
  [id |-> id, isError |-> isError,
   content |-> << [type |-> "text", text |-> text] >>]

\* the catch block builds the text and leaves the isError marker out
ErrorReply_NoFlag(id, errorMessage) == Reply(id, FALSE, <<"Error: ">> \o errorMessage)

\* lines 341-347
ErrorReply(id, errorMessage) == Reply(id, TRUE, <<"Error: ">> \o errorMessage)

SetCall(id, call) ==
  [c \in DOMAIN calls \cup {id} |-> IF c = id THEN call ELSE calls[c]]

\* the response is written on return and once more by the caller
Respond_Twice(id, call, reply) ==
  /\ out' = out \o <<reply, reply>>
  /\ calls' = SetCall(id, [call EXCEPT !.pc = "done"])

\* the response is written ahead of the responses already sent
Respond_AtFront(id, call, reply) ==
  /\ out' = <<reply>> \o out
  /\ calls' = SetCall(id, [call EXCEPT !.pc = "done"])

\* the handler of request id returns this response
Respond(id, call, reply) ==
  /\ out' = Append(out, reply)
  /\ calls' = SetCall(id, [call EXCEPT !.pc = "done"])

\* the handler of request id suspends on an I/O operation
Suspend(id, call) ==
  /\ calls' = SetCall(id, call)
  /\ out' = out

\* every name is taken for read_notes' neighbour in the switch
switchCase_Fallthrough(name) ==
  IF name \in {"write_note", "delete_note", "search_notes"} THEN name
  ELSE "read_notes"

\* lines 207-339: the case of the switch that a tool name selects
switchCase(name) ==
  IF name \in {"write_note", "delete_note", "read_notes", "search_notes"}
    THEN name
    ELSE "default"

\* a request arrives while the server runs
Receive(name, args) ==
  /\ phase = "serving"
  /\ Len(reqs) < MaxCalls
  /\ reqs' = Append(reqs, [name |-> name, args |-> args])

\* lines 240-250
WroteReply(id, call) ==
  Reply(id, FALSE,
        <<"Successfully ", IF call.append THEN "appended to" ELSE "wrote", " note: ">>
          \o relative(obsidianVaultDir, call.validPath))

\* the path is not checked: a rejected path goes on to its mkdir
WriteNoteStart_Unguarded(id, parsed, valid) ==
  IF ~parsed.success
    THEN Respond(id, NewCall("write_note"),
                 ErrorReply(id, <<"Invalid arguments for write_note: ">> \o parsed.error))
    ELSE Suspend(id, [NewCall("write_note") EXCEPT
                        !.pc = "mkdir",
                        !.validPath = IF valid.ok THEN valid.val
                                      ELSE withMdExt(fullPathOf(obsidianVaultDir,
                                                                parsed.path)),
                        !.content = parsed.content, !.append = parsed.append])

\* lines 209-214
WriteNoteStart(id, parsed, valid) ==
  IF ~parsed.success
    THEN Respond(id, NewCall("write_note"),
                 ErrorReply(id, <<"Invalid arguments for write_note: ">> \o parsed.error))
    ELSE IF ~valid.ok
      THEN Respond(id, NewCall("write_note"), ErrorReply(id, valid.val))
      ELSE Suspend(id, [NewCall("write_note") EXCEPT
                          !.pc = "mkdir", !.validPath = valid.val,
                          !.content = parsed.content, !.append = parsed.append])

\* lines 208-218: write_note up to its first file-system operation
CallWriteNote ==
  \E name \in Names, args \in WriteNoteInputs :
    /\ switchCase(name) = "write_note"
    /\ Receive(name, args)
    /\ WriteNoteStart(Len(reqs) + 1, WriteNoteArgsSchema(args),
                      validatePath(obsidianVaultDir, WriteNoteArgsSchema(args).path))
    /\ UNCHANGED <<phase, vaultArg, obsidianVaultDir, fs, reqPath, resolved,
               componentInfoCache>>

\* the outcome of mkdir is not looked at
MkdirSettled_Ignored(id, call, r) ==
  /\ fs' = r.fs
  /\ Suspend(id, [call EXCEPT !.pc = IF call.append THEN "readFile" ELSE "writeFile"])

MkdirSettled(id, call, r) ==
  /\ fs' = r.fs
  /\ IF r.ok
       THEN Suspend(id, [call EXCEPT !.pc = IF call.append THEN "readFile" ELSE "writeFile"])
       ELSE Respond(id, call, ErrorReply(id, r.val))

\* lines 217-221: mkdir of the parent directory
MkdirDone(id) ==
  /\ id \in DOMAIN calls /\ calls[id].pc = "mkdir"
  /\ \E fault \in BOOLEAN :
       MkdirSettled(id, calls[id],
                    fsMkdirRecursive(fs, dirname(calls[id].validPath), fault))
  /\ UNCHANGED <<phase, vaultArg, obsidianVaultDir, reqs, reqPath, resolved,
               componentInfoCache>>

\* the read of the existing note has no catch: its failure ends the call
ReadExistingSettled_NoCatch(id, call, r) ==
  IF r.ok
    THEN Suspend(id, [call EXCEPT !.pc = "writeAppend", !.existingContent = r.val])
    ELSE Respond(id, call, ErrorReply(id, r.val))

\* lines 223-233: the try block goes on to its write, the catch to its own
ReadExistingSettled(id, call, r) ==
  IF r.ok
    THEN Suspend(id, [call EXCEPT !.pc = "writeAppend", !.existingContent = r.val])
    ELSE Suspend(id, [call EXCEPT !.pc = "writeFallback"])

\* line 224; a failure enters the catch of line 230
ReadExistingDone(id) ==
  /\ id \in DOMAIN calls /\ calls[id].pc = "readFile"
  /\ \E fault \in BOOLEAN :
       ReadExistingSettled(id, calls[id], fsReadFile(fs, calls[id].validPath, fault))
  /\ UNCHANGED <<phase, vaultArg, obsidianVaultDir, fs, reqs, reqPath, resolved,
               componentInfoCache>>

WriteAppendSettled(id, call, r) ==
  /\ fs' = r.fs
  /\ IF r.ok
       THEN Respond(id, call, WroteReply(id, call))
       ELSE Suspend(id, [call EXCEPT !.pc = "writeFallback"])

\* the append is made to what the file holds at the time of the write
AppendedContent_Atomic(call) ==
  (IF IsFile(fs, call.validPath) THEN fs[call.validPath].data ELSE <<>>)
    \o AppendSeparator \o call.content

\* line 227
AppendedContent(call) == call.existingContent \o AppendSeparator \o call.content

\* lines 225-229; a failure enters the catch of line 230
WriteAppendDone(id) ==
  /\ id \in DOMAIN calls /\ calls[id].pc = "writeAppend"
  /\ \E fault \in BOOLEAN :
       WriteAppendSettled(id, calls[id],
                          fsWriteFile(fs, calls[id].validPath,
                                      AppendedContent(calls[id]), fault))
  /\ UNCHANGED <<phase, vaultArg, obsidianVaultDir, reqs, reqPath, resolved,
               componentInfoCache>>

WriteSettled(id, call, r) ==
  /\ fs' = r.fs
  /\ IF r.ok
       THEN Respond(id, call, WroteReply(id, call))
       ELSE Respond(id, call, ErrorReply(id, r.val))

\* the content a plain write stores is cut to nothing
WrittenContent_Empty(call) == <<>>

\* lines 232 and 236: the content argument as it is
WrittenContent(call) == call.content

\* line 232: the catch block writes the new content alone
WriteFallbackDone(id) ==
  /\ id \in DOMAIN calls /\ calls[id].pc = "writeFallback"
  /\ \E fault \in BOOLEAN :
       WriteSettled(id, calls[id],
                    fsWriteFile(fs, calls[id].validPath, WrittenContent(calls[id]), fault))
  /\ UNCHANGED <<phase, vaultArg, obsidianVaultDir, reqs, reqPath, resolved,
               componentInfoCache>>

\* line 236: overwrite or create
WriteFileDone(id) ==
  /\ id \in DOMAIN calls /\ calls[id].pc = "writeFile"
  /\ \E fault \in BOOLEAN :
       WriteSettled(id, calls[id],
                    fsWriteFile(fs, calls[id].validPath, WrittenContent(calls[id]), fault))
  /\ UNCHANGED <<phase, vaultArg, obsidianVaultDir, reqs, reqPath, resolved,
               componentInfoCache>>

\* lines 254-259
DeleteNoteStart(id, parsed, valid) ==
  IF ~parsed.success
    THEN Respond(id, NewCall("delete_note"),
                 ErrorReply(id, <<"Invalid arguments for delete_note: ">> \o parsed.error))
    ELSE IF ~valid.ok
      THEN Respond(id, NewCall("delete_note"), ErrorReply(id, valid.val))
      ELSE Suspend(id, [NewCall("delete_note") EXCEPT
                          !.pc = "unlink", !.validPath = valid.val])

\* lines 253-262: delete_note up to its unlink
CallDeleteNote ==
  \E name \in Names, args \in DeleteNoteInputs :
    /\ switchCase(name) = "delete_note"
    /\ Receive(name, args)
    /\ DeleteNoteStart(Len(reqs) + 1, DeleteNoteArgsSchema(args),
                       validatePath(obsidianVaultDir, DeleteNoteArgsSchema(args).path))
    /\ UNCHANGED <<phase, vaultArg, obsidianVaultDir, fs, reqPath, resolved,
               componentInfoCache>>

\* the result of unlink is not looked at: the call always reports the deletion
UnlinkSettled_Quiet(id, call, r) ==
  /\ fs' = r.fs
  /\ Respond(id, call, Reply(id, FALSE,
         <<"Successfully deleted note: ">>
           \o relative(obsidianVaultDir, call.validPath)))

UnlinkSettled(id, call, r) ==
  /\ fs' = r.fs
  /\ IF r.ok
       THEN Respond(id, call, Reply(id, FALSE,
              <<"Successfully deleted note: ">>
                \o relative(obsidianVaultDir, call.validPath)))
       ELSE Respond(id, call, ErrorReply(id, <<"Failed to delete note: ">> \o r.val))

\* lines 261-280
UnlinkDone(id) ==
  /\ id \in DOMAIN calls /\ calls[id].pc = "unlink"
  /\ \E fault \in BOOLEAN :
       UnlinkSettled(id, calls[id], fsUnlink(fs, calls[id].validPath, fault))
  /\ UNCHANGED <<phase, vaultArg, obsidianVaultDir, reqs, reqPath, resolved,
               componentInfoCache>>

\* lines 297-300
ReadErrorEntry(notePath, errorMessage) ==
  <<"Error reading note ">> \o notePath \o <<": ">> \o errorMessage

\* line 296
ReadContentEntry(validPath, content) ==
  <<"# ">> \o relative(obsidianVaultDir, validPath) \o CodeNewline \o CodeNewline
    \o content \o CodeNewline

\* Array.prototype.join
JoinText(entries, sep) ==
  LET F[i \in 0..Len(entries)] ==
        IF i = 0 THEN <<>>
        ELSE IF i = 1 THEN entries[1]
        ELSE F[i - 1] \o sep \o entries[i]
  IN F[Len(entries)]

EntryTexts(results) == [i \in 1..Len(results) |-> results[i].text]

\* each entry becomes a content block of its own
ReadNotesContent_PerEntry(results) ==
  [i \in 1..Len(results) |-> [type |-> "text", text |-> results[i].text]]

\* line 306: one text block holding the joined entries
ReadNotesContent(results) ==
  << [type |-> "text", text |-> JoinText(EntryTexts(results), EntrySeparator)] >>

\* lines 305-307
ReadNotesReply(id, results) ==
  [id |-> id, isError |-> FALSE, content |-> ReadNotesContent(results)]

\* the batch answers as soon as one entry has settled (Promise.race)
AllSettled_Any(results) ==
  Len(results) = 0 \/ \E i \in 1..Len(results) : results[i].settled

AllSettled(results) == \A i \in 1..Len(results) : results[i].settled

\* lines 291-292 and 297-300: a path the guard rejects settles at once
ReadStartEntry(notePath, valid) ==
  IF valid.ok
    THEN [settled |-> FALSE, validPath |-> valid.val, text |-> <<>>]
    ELSE [settled |-> TRUE, validPath |-> <<>>,
          text |-> ReadErrorEntry(notePath, valid.val)]

\* line 290: the map over the requested paths
ReadStartEntries(paths) ==
  [i \in 1..Len(paths) |->
     ReadStartEntry(paths[i], validatePath(obsidianVaultDir, paths[i]))]

\* the batch answers once every entry has settled (Promise.all)
ReadNotesProgress(id, call, results) ==
  IF AllSettled(results)
    THEN Respond(id, [call EXCEPT !.results = results], ReadNotesReply(id, results))
    ELSE Suspend(id, [call EXCEPT !.results = results])

\* lines 284-290
ReadNotesStart(id, parsed) ==
  IF ~parsed.success
    THEN Respond(id, NewCall("read_notes"),
                 ErrorReply(id, <<"Invalid arguments for read_notes: ">> \o parsed.error))
    ELSE ReadNotesProgress(id,
           [NewCall("read_notes") EXCEPT !.pc = "reading", !.notePaths = parsed.paths],
           ReadStartEntries(parsed.paths))

\* lines 283-293: read_notes up to the readFile of every accepted path
CallReadNotes ==
  \E name \in Names, args \in ReadNotesInputs :
    /\ switchCase(name) = "read_notes"
    /\ Receive(name, args)
    /\ ReadNotesStart(Len(reqs) + 1, ReadNotesArgsSchema(args))
    /\ UNCHANGED <<phase, vaultArg, obsidianVaultDir, fs, reqPath, resolved,
               componentInfoCache>>

\* lines 293-301: the entry of one settled read
ReadSettledEntry(call, i, r) ==
  [settled |-> TRUE, validPath |-> call.results[i].validPath,
   text |-> IF r.ok THEN ReadContentEntry(call.results[i].validPath, r.val)
            ELSE ReadErrorEntry(call.notePaths[i], r.val)]

\* the entry of a settled read is stored at the front
StoreEntry_AtFront(results, i, entry) ==
  <<entry>> \o [j \in 1..(Len(results) - 1) |->
                  IF j < i THEN results[j] ELSE results[j + 1]]

\* Promise.all keeps each result at the index of its promise
StoreEntry(results, i, entry) == [results EXCEPT ![i] = entry]

\* the note is opened with a flag that creates it when it is missing
ReadNoteDone_Creating(id, i) ==
  /\ id \in DOMAIN calls /\ calls[id].pc = "reading"
  /\ i \in 1..Len(calls[id].results) /\ ~calls[id].results[i].settled
  /\ \E fault \in BOOLEAN :
       ReadNotesProgress(id, calls[id],
         StoreEntry(calls[id].results, i,
           ReadSettledEntry(calls[id], i,
             fsReadFile(fs, calls[id].results[i].validPath, fault))))
  /\ fs' = [q \in DOMAIN fs \cup {calls[id].results[i].validPath} |->
              IF q \in DOMAIN fs THEN fs[q] ELSE FileNode(<<>>)]
  /\ UNCHANGED <<phase, vaultArg, obsidianVaultDir, reqs, reqPath, resolved,
               componentInfoCache>>

\* lines 293-307: one readFile of the batch settles; the last one to settle
\* resolves Promise.all
ReadNoteDone(id, i) ==
  /\ id \in DOMAIN calls /\ calls[id].pc = "reading"
  /\ i \in 1..Len(calls[id].results) /\ ~calls[id].results[i].settled
  /\ \E fault \in BOOLEAN :
       ReadNotesProgress(id, calls[id],
         StoreEntry(calls[id].results, i,
           ReadSettledEntry(calls[id], i,
             fsReadFile(fs, calls[id].results[i].validPath, fault))))
  /\ UNCHANGED <<phase, vaultArg, obsidianVaultDir, fs, reqs, reqPath, resolved,
               componentInfoCache>>

----------------------------------------------------------------------------
(* findNotes, obsidian.ts:135-201, and search_notes, obsidian.ts:310-336 *)

\* String.prototype.toLowerCase on the letters of the model
LowerChar(ch) ==
  CASE ch = "A" -> "a" [] ch = "D" -> "d" [] ch = "M" -> "m" [] ch = "V" -> "v"
    [] OTHER -> ch

toLowerCase(s) == [i \in 1..Len(s) |-> LowerChar(s[i])]

\* String.prototype.includes
includes(s, sub) ==
  \E k \in 0..Len(s) : k + Len(sub) <= Len(s) /\ SubSeq(s, k + 1, k + Len(sub)) = sub

\* only the name without its extension is looked at
includesTerm_StrippedOnly(searchTerm, name) ==
  includes(toLowerCase(SubSeq(name, 1, Len(name) - 3)), toLowerCase(searchTerm))

\* lines 180-182 and 188-190
includesTerm(searchTerm, name) ==
  \/ includes(toLowerCase(SubSeq(name, 1, Len(name) - 3)), toLowerCase(searchTerm))
  \/ includes(toLowerCase(name), toLowerCase(searchTerm))

\* lines 158-167
isRegex(searchTerm) ==
  /\ startsWith(searchTerm, Slash)
  /\ \/ endsWith(searchTerm, <<"/">>)
     \/ endsWith(searchTerm, <<"/", "i">>)
     \/ endsWith(searchTerm, <<"/", "g">>)
     \/ endsWith(searchTerm, <<"/", "g", "i">>)
     \/ endsWith(searchTerm, <<"/", "i", "g">>)

FlagChars == {"g", "i", "m", "u", "y"}

\* line 171: the positions of a closing slash that /^\/(.*)\/([gimuy]*)$/ admits
ClosingSlashes(searchTerm) ==
  { k \in 2..Len(searchTerm) :
      /\ searchTerm[k] = "/"
      /\ \A j \in (k + 1)..Len(searchTerm) : searchTerm[j] \in FlagChars }

\* the greedy (.*) takes the last admissible closing slash; 0 when match is null
ClosingSlash(searchTerm, S) ==
  IF searchTerm = <<>> \/ Head(searchTerm) # "/" \/ S = {} THEN 0
  ELSE CHOOSE k \in S : \A j \in S : j <= k

\* new RegExp(pattern, flags) throws a SyntaxError: a flag given twice, or a
\* character class that is never closed
RegExpThrows(pattern, flags) ==
  \/ \E i, j \in 1..Len(flags) : i # j /\ flags[i] = flags[j]
  \/ \E i \in 1..Len(pattern) :
       pattern[i] = "[" /\ \A j \in (i + 1)..Len(pattern) : pattern[j] # "]"

SameChar(a, b, flags) ==
  IF \E i \in 1..Len(flags) : flags[i] = "i" THEN LowerChar(a) = LowerChar(b) ELSE a = b

\* the pattern, made of literals, ".", "^" and "$", matches s from position k
MatchesAt(pattern, flags, s, k) ==
  LET P[i \in 0..Len(pattern)] ==
        \* the position in s after the first i atoms, 0 when they do not match
        IF i = 0 THEN k
        ELSE IF P[i - 1] = 0 THEN 0
        ELSE IF pattern[i] = "^" THEN (IF P[i - 1] = 1 THEN 1 ELSE 0)
        ELSE IF pattern[i] = "$" THEN (IF P[i - 1] = Len(s) + 1 THEN P[i - 1] ELSE 0)
        ELSE IF P[i - 1] > Len(s) THEN 0
        ELSE IF pattern[i] = "." \/ SameChar(pattern[i], s[P[i - 1]], flags)
          THEN P[i - 1] + 1
        ELSE 0
  IN P[Len(pattern)] # 0

\* RegExp.prototype.test on a regex created for this one file
regexTest(pattern, flags, s) ==
  \E k \in 1..(Len(s) + 1) : MatchesAt(pattern, flags, s, k)

\* a pattern that does not compile counts as a match of every name
regexTerm_ThrowMatches(searchTerm, name, k) ==
  IF k = 0 THEN FALSE
  ELSE IF RegExpThrows(SubSeq(searchTerm, 2, k - 1),
                       SubSeq(searchTerm, k + 1, Len(searchTerm)))
    THEN TRUE
  ELSE \/ regexTest(SubSeq(searchTerm, 2, k - 1),
                    SubSeq(searchTerm, k + 1, Len(searchTerm)),
                    SubSeq(name, 1, Len(name) - 3))
       \/ regexTest(SubSeq(searchTerm, 2, k - 1),
                    SubSeq(searchTerm, k + 1, Len(searchTerm)), name)

\* lines 169-178, with the catch of lines 185-193
regexTerm(searchTerm, name, k) ==
  IF k = 0 THEN FALSE
  ELSE IF RegExpThrows(SubSeq(searchTerm, 2, k - 1),
                       SubSeq(searchTerm, k + 1, Len(searchTerm)))
    THEN includesTerm(searchTerm, name)
  ELSE \/ regexTest(SubSeq(searchTerm, 2, k - 1),
                    SubSeq(searchTerm, k + 1, Len(searchTerm)),
                    SubSeq(name, 1, Len(name) - 3))
       \/ regexTest(SubSeq(searchTerm, 2, k - 1),
                    SubSeq(searchTerm, k + 1, Len(searchTerm)), name)

\* lines 153-193: the file name matches the search term
nameMatches(searchTerm, name) ==
  IF isRegex(searchTerm)
    THEN regexTerm(searchTerm, name, ClosingSlash(searchTerm, ClosingSlashes(searchTerm)))
    ELSE includesTerm(searchTerm, name)

\* the activation of searchDirectory for dirPath, with the entries its loop
\* has still to visit
Frame(dirPath, entries) == [dirPath |-> dirPath, entries |-> entries]

\* no directory is taken for hidden
isHidden_Never(name) == FALSE

\* line 148: a directory whose name starts with a dot is skipped
isHidden(name) == startsWith(name, Dot)

\* line 151: entry.isFile() && entry.name.endsWith('.md')
isNoteFile(entry) == entry.kind = "file" /\ endsWith(entry.name, MD)

RECURSIVE searchLoop(_, _, _)

\* lines 143-196: the loops of the active searchDirectory calls run up to the
\* next readdir (dirPath is then the directory to list) or to the return of
\* the outermost call (dirPath is then empty)
searchLoop(searchTerm, frames, results) ==
  IF frames = <<>>
    THEN [dirPath |-> <<>>, frames |-> <<>>, results |-> results]
  ELSE IF Head(frames).entries = <<>>
    THEN searchLoop(searchTerm, Tail(frames), results)
  ELSE IF Head(Head(frames).entries).kind = "dir"
    THEN IF ~isHidden(Head(Head(frames).entries).name)
      THEN [dirPath |-> join(Head(frames).dirPath, Head(Head(frames).entries).name),
            frames |-> <<Frame(Head(frames).dirPath, Tail(Head(frames).entries))>>
                         \o Tail(frames),
            results |-> results]
      ELSE searchLoop(searchTerm,
                      <<Frame(Head(frames).dirPath, Tail(Head(frames).entries))>>
                        \o Tail(frames),
                      results)
  ELSE searchLoop(searchTerm,
                  <<Frame(Head(frames).dirPath, Tail(Head(frames).entries))>>
                    \o Tail(frames),
                  IF /\ isNoteFile(Head(Head(frames).entries))
                     /\ nameMatches(searchTerm, Head(Head(frames).entries).name)
                    THEN Append(results,
                                join(Head(frames).dirPath, Head(Head(frames).entries).name))
                    ELSE results)

\* lines 319-321
relativePaths(results) ==
  [i \in 1..Len(results) |-> relative(obsidianVaultDir, results[i])]

\* lines 323-335
SearchReply(id, searchTerm, results) ==
  Reply(id, FALSE,
        IF Len(results) > 0
          THEN <<"Found ", ToString(Len(results)), " notes:">> \o CodeNewline
                 \o JoinText(relativePaths(results), CodeNewline)
          ELSE <<"No notes found matching \"">> \o searchTerm \o <<"\"">>)

\* findNotes returns when the outermost searchDirectory does
SearchProgress(id, call, next) ==
  IF next.dirPath = <<>>
    THEN Respond(id, [call EXCEPT !.frames = <<>>, !.dirPath = <<>>,
                                  !.results = next.results],
                 SearchReply(id, call.searchTerm, next.results))
    ELSE Suspend(id, [call EXCEPT !.frames = next.frames, !.dirPath = next.dirPath,
                                  !.results = next.results])

\* lines 311-316
SearchNotesStart(id, parsed) ==
  IF ~parsed.success
    THEN Respond(id, NewCall("search_notes"),
                 ErrorReply(id, <<"Invalid arguments for search_notes: ">> \o parsed.error))
    ELSE Suspend(id, [NewCall("search_notes") EXCEPT
                        !.pc = "readdir", !.searchTerm = parsed.query,
                        !.dirPath = obsidianVaultDir])

\* lines 310-316 and 200: search_notes up to the readdir of the vault root
CallSearchNotes ==
  \E name \in Names, args \in SearchNotesInputs :
    /\ switchCase(name) = "search_notes"
    /\ Receive(name, args)
    /\ SearchNotesStart(Len(reqs) + 1, SearchNotesArgsSchema(args))
    /\ UNCHANGED <<phase, vaultArg, obsidianVaultDir, fs, reqPath, resolved,
               componentInfoCache>>

\* a failed readdir ends the search with the notes collected so far
ReaddirSettled_Partial(id, call, r, entries) ==
  IF r.ok
    THEN SearchProgress(id, call,
           searchLoop(call.searchTerm, <<Frame(call.dirPath, entries)>> \o call.frames,
                      call.results))
    ELSE Respond(id, call, SearchReply(id, call.searchTerm, call.results))

ReaddirSettled(id, call, r, entries) ==
  IF r.ok
    THEN SearchProgress(id, call,
           searchLoop(call.searchTerm, <<Frame(call.dirPath, entries)>> \o call.frames,
                      call.results))
    ELSE Respond(id, call, ErrorReply(id, r.val))

\* line 141: one readdir settles, in an order of the operating system's
\* choice; its failure leaves every searchDirectory and reaches the catch of
\* line 341
ReaddirDone(id) ==
  /\ id \in DOMAIN calls /\ calls[id].pc = "readdir"
  /\ \E fault \in BOOLEAN :
     \E entries \in Orderings(DirEntries(fs, Key(calls[id].dirPath))) :
       ReaddirSettled(id, calls[id], fsReaddir(fs, calls[id].dirPath, fault), entries)
  /\ UNCHANGED <<phase, vaultArg, obsidianVaultDir, fs, reqs, reqPath, resolved,
               componentInfoCache>>

\* lines 338-347
UnknownToolReply(id, name) == ErrorReply(id, <<"Unknown tool: ", name>>)

\* lines 338-339: the default branch of the switch
CallUnknown ==
  \E name \in Names, args \in {NoArgs, [NoArgs EXCEPT !.path = StrV(<<"a">>)]} :
    /\ switchCase(name) = "default"
    /\ Receive(name, args)
    /\ Respond(Len(reqs) + 1, NewCall(name), UnknownToolReply(Len(reqs) + 1, name))
    /\ UNCHANGED <<phase, vaultArg, obsidianVaultDir, fs, reqPath, resolved,
               componentInfoCache>>

----------------------------------------------------------------------------
(* Startup, obsidian.ts:13-35 and 351-361 *)

\* any path that stat finds is taken for the vault
StartupChecked_AnyStat(dir, st) ==
  /\ obsidianVaultDir' = dir
  /\ phase' = IF st.ok THEN "serving" ELSE "exited"

\* lines 20-35: process.exit(1) unless stat finds a directory
StartupChecked(dir, st) ==
  /\ obsidianVaultDir' = dir
  /\ phase' = IF st.ok /\ st.val = <<"dir">> THEN "serving" ELSE "exited"

Startup ==
  /\ phase = "boot"
  /\ IF vaultArg = <<>>
       THEN phase' = "exited" /\ obsidianVaultDir' = obsidianVaultDir
       ELSE \E fault \in BOOLEAN :
              StartupChecked(resolve(vaultArg), fsStat(fs, resolve(vaultArg), fault))
  /\ UNCHANGED <<vaultArg, fs, calls, out, reqs, reqPath, resolved,
               componentInfoCache>>

----------------------------------------------------------------------------
(* The server *)

Init ==
  /\ phase = "boot"
  /\ vaultArg \in VaultArgs
  /\ obsidianVaultDir = <<>>
  /\ fs \in InitialFileSystems
  /\ calls = <<>>
  /\ out = <<>>
  /\ reqs = <<>>
  /\ reqPath = <<>>
  /\ resolved = None
  /\ componentInfoCache = <<>>

CallIds == 1..MaxCalls

Next ==
  \/ Startup
  \/ CallWriteNote
  \/ CallDeleteNote
  \/ CallReadNotes
  \/ CallSearchNotes
  \/ CallUnknown
  \/ \E id \in CallIds : MkdirDone(id)
  \/ \E id \in CallIds : ReadExistingDone(id)
  \/ \E id \in CallIds : WriteAppendDone(id)
  \/ \E id \in CallIds : WriteFallbackDone(id)
  \/ \E id \in CallIds : WriteFileDone(id)
  \/ \E id \in CallIds : UnlinkDone(id)
  \/ \E id \in CallIds : ReaddirDone(id)
  \/ \E id \in CallIds : \E i \in 1..MaxBatch : ReadNoteDone(id, i)

Spec == Init /\ [][Next]_vars

\* the handler of request id waits at pc for a file-system operation
WaitsAt(id, pc) == id \in DOMAIN calls /\ calls[id].pc = pc

\* read_notes of request id waits for the readFile of its entry i
WaitsForEntry(id, i) ==
  /\ WaitsAt(id, "reading")
  /\ i \in 1..Len(calls[id].results) /\ ~calls[id].results[i].settled

\* Every file-system operation completes.  The action that settles an
\* operation is enabled exactly while its handler waits at the action's pc
\* (or for the action's entry), and a step of it ends that wait, so weak
\* fairness of the action is that the wait does not last forever; a readdir
\* may be followed by the readdir of the next directory.
IoCompletes(id) ==
  /\ \A pc \in {"mkdir", "readFile", "writeAppend", "writeFallback", "writeFile",
                 "unlink"} : []<>(~WaitsAt(id, pc))
  /\ \A i \in 1..MaxBatch : []<>(~WaitsForEntry(id, i))
  /\ \/ []<>(~WaitsAt(id, "readdir"))
     \/ []<><<WaitsAt(id, "readdir") /\ calls'[id] # calls[id]>>_vars

\* Spec with the process start running to its end and every file-system
\* operation completing
SpecFair ==
  Spec /\ WF_vars(Startup) /\ \A id \in CallIds : IoCompletes(id)

----------------------------------------------------------------------------
(* SpecPath: validatePath applied to every bounded path and root *)

InitPath ==
  /\ phase = "serving"
  /\ vaultArg \in Roots
  /\ obsidianVaultDir = vaultArg
  /\ fs = <<>>
  /\ calls = <<>>
  /\ out = <<>>
  /\ reqs = <<>>
  /\ reqPath \in Strings(MaxPathLen)
  /\ resolved = None
  /\ componentInfoCache = <<>>

ResolvePath ==
  /\ resolved = None
  /\ resolved' = validatePath(obsidianVaultDir, reqPath)
  /\ UNCHANGED <<phase, vaultArg, obsidianVaultDir, fs, calls, out, reqs, reqPath,
               componentInfoCache>>

NextPath == ResolvePath

SpecPath == InitPath /\ [][NextPath]_vars

----------------------------------------------------------------------------
(* SpecSearch: one search_notes call with every bounded search term, in a    *)
(* vault that holds one note                                                  *)

TermAlphabet == {"/", "a", "A", "i", "g", "m"}

SearchTerms == UNION { [1..k -> TermAlphabet] : k \in 0..MaxTermLen }

\* file names of the one note
NoteNames == { <<"a", ".", "m", "d">>, <<"A", ".", "m", "d">>,
               <<"m", "a", ".", "m", "d">> }

NoteVault(name) ==
  [q \in DOMAIN BaseFs \cup {<<"/", "v", "/">> \o name} |->
     IF q \in DOMAIN BaseFs THEN BaseFs[q] ELSE FileNode(<<"A">>)]

InitSearch ==
  /\ phase = "serving"
  /\ vaultArg = <<"/", "v">>
  /\ obsidianVaultDir = vaultArg
  /\ fs \in { NoteVault(name) : name \in NoteNames }
  /\ calls = <<>>
  /\ out = <<>>
  /\ reqs = <<>>
  /\ reqPath = <<>>
  /\ resolved = None
  /\ componentInfoCache = <<>>

CallSearchTerm ==
  \E searchTerm \in SearchTerms :
    /\ reqs = <<>>
    /\ Receive("search_notes", [NoArgs EXCEPT !.query = StrV(searchTerm)])
    /\ SearchNotesStart(1, SearchNotesArgsSchema([NoArgs EXCEPT !.query = StrV(searchTerm)]))
    /\ UNCHANGED <<phase, vaultArg, obsidianVaultDir, fs, reqPath, resolved,
               componentInfoCache>>

NextSearch ==
  \/ CallSearchTerm
  \/ \E id \in CallIds : ReaddirDone(id)

SpecSearch == InitSearch /\ [][NextSearch]_vars

----------------------------------------------------------------------------
(* Claims about validatePath, checked under SpecPath *)

\* p lies in the directory tree of vault: it is vault itself or continues
\* it after a separator
Inside(vault, p) ==
  \/ p = vault
  \/ startsWith(p, IF vault = Slash THEN Slash ELSE vault \o Slash)

\* the last component of p is a file name: p does not end with a separator
\* and its last segment is neither empty nor "." nor ".."
PlainName(p) ==
  /\ Len(p) > 0
  /\ p[Len(p)] # "/"
  /\ lastComponent(p) \notin {<<>>, Dot, DotDot}

Called == resolved # None

\* C1: validatePath either returns a path that has the vault root as a
\* prefix or throws the "Access denied" error; it never returns a path that
\* lacks the root as a prefix.
C1_PrefixOrDenied ==
  Called =>
    IF resolved.ok
      THEN startsWith(resolved.val, obsidianVaultDir)
      ELSE resolved.val = AccessDenied(fullPathOf(obsidianVaultDir, reqPath))

\* a path with a ".." segment was accepted under a root other than "/"
C1_Witness ==
  /\ Called /\ resolved.ok
  /\ \E i \in 1..Len(Split(reqPath)) : Split(reqPath)[i] = DotDot
  /\ obsidianVaultDir # Slash

\* C2: a requested path that resolves to a location outside the vault
\* directory tree (by ".." segments or as an absolute path) is rejected.
C2_EscapeDenied ==
  Called /\ ~Inside(obsidianVaultDir, fullPathOf(obsidianVaultDir, reqPath))
    => ~resolved.ok

\* C3: for a requested path p whose last component is a name without the
\* ".md" extension, validatePath(p) and validatePath(p + ".md") have the
\* same outcome: the same NotePath.
C3_SuffixIdempotent ==
  Called /\ PlainName(reqPath) /\ extname(reqPath) # MD =>
    LET other == validatePath(obsidianVaultDir, reqPath \o MD) IN
    /\ other.ok = resolved.ok
    /\ resolved.ok => other.val = resolved.val

\* C4: every returned NotePath ends with ".md"; the suffix is appended when
\* the (normalized) requested path does not end with ".md" and is not
\* appended again when it does.
C4_MdSuffixOnce ==
  Called /\ resolved.ok =>
    LET fullPath == fullPathOf(obsidianVaultDir, reqPath) IN
    /\ endsWith(resolved.val, MD)
    /\ endsWith(fullPath, MD) => resolved.val = fullPath
    /\ ~endsWith(fullPath, MD) => resolved.val = fullPath \o MD

----------------------------------------------------------------------------
(* Claims about the tool handlers, checked under Spec *)

Newline == "\n"

\* the response to request id
Answered(id) == \E k \in 1..Len(out) : out[k].id = id
Response(id) == out[CHOOSE k \in 1..Len(out) : out[k].id = id]

\* the path request id names, as validatePath returns it
RequestedPath(id) == validatePath(obsidianVaultDir, reqs[id].args.path.s).val

\* this step returns the call id, and returns it without an error
Returns(id) ==
  /\ id \in DOMAIN calls /\ calls[id].pc # "done" /\ calls'[id].pc = "done"
ReturnsSuccess(id) ==
  /\ Returns(id)
  /\ out'[Len(out')].id = id /\ ~out'[Len(out')].isError

SuccessfulWrite(id, path, content, append) ==
  /\ id \in 1..Len(reqs) /\ Answered(id) /\ ~Response(id).isError
  /\ reqs[id].name = "write_note"
  /\ reqs[id].args.path = StrV(path) /\ reqs[id].args.content = StrV(content)
  /\ reqs[id].args.append \in append

\* C5: the step that returns a successful write_note without append leaves
\* the file at the requested path holding exactly the content argument,
\* whatever the file held before.
C5_OverwriteExact ==
  [][\A id \in CallIds :
       ReturnsSuccess(id) /\ calls[id].name = "write_note" /\ ~calls[id].append
       => /\ RequestedPath(id) \in DOMAIN fs'
          /\ fs'[RequestedPath(id)] = FileNode(reqs[id].args.content.s)]_vars

\* a note is written with "A" and then overwritten with "B"
C5_Witness ==
  /\ Len(out) = 2 /\ out[1].id = 1 /\ out[2].id = 2
  /\ SuccessfulWrite(1, <<"a">>, <<"A">>, {Undef, BoolV(FALSE)})
  /\ SuccessfulWrite(2, <<"a">>, <<"B">>, {Undef, BoolV(FALSE)})
  /\ fs[RequestedPath(2)] = FileNode(<<"B">>)

\* C6: when the try block of an append returns success for a note that holds
\* the content A it read, the file holds A, two newline characters, and B.
C6_AppendBlankLine ==
  [][\A id \in CallIds :
       /\ ReturnsSuccess(id) /\ calls[id].pc = "writeAppend"
       /\ IsFile(fs, calls[id].validPath)
       /\ fs[calls[id].validPath].data = calls[id].existingContent
       => fs'[calls[id].validPath] =
            FileNode(calls[id].existingContent \o <<Newline, Newline>>
                       \o reqs[id].args.content.s)]_vars

\* C7: an append whose path holds no file goes on to the write of the catch
\* block; that write, when no file is there and the parent directory is,
\* creates the file with exactly the content B and reports success unless
\* the environment denies the write.
C7_AppendCreates ==
  [][\A id \in CallIds :
       /\ (/\ id \in DOMAIN calls /\ calls[id].pc = "readFile"
           /\ calls'[id] # calls[id]
           /\ calls[id].validPath \notin DOMAIN fs)
          => calls'[id].pc = "writeFallback" /\ out' = out
       /\ (/\ Returns(id) /\ calls[id].pc = "writeFallback"
           /\ calls[id].validPath \notin DOMAIN fs
           /\ IsDir(fs, dirname(calls[id].validPath)))
          => \/ /\ ReturnsSuccess(id)
                /\ fs' = [q \in DOMAIN fs \cup {RequestedPath(id)} |->
                            IF q = RequestedPath(id)
                              THEN FileNode(reqs[id].args.content.s) ELSE fs[q]]
                /\ out'[Len(out')].content[1].text =
                     <<"Successfully ", "appended to", " note: ">>
                       \o relative(obsidianVaultDir, RequestedPath(id))
             \/ /\ out'[Len(out')].isError
                /\ out'[Len(out')].content[1].text[2] = "EACCES"
                /\ fs' = fs]_vars

\* an append to a missing note created it with its content alone
C7_Witness ==
  /\ Len(reqs) = 1
  /\ SuccessfulWrite(1, <<"d", "/", "a">>, <<"B">>, {BoolV(TRUE)})
  /\ calls[1].existingContent = <<>>
  /\ fs[RequestedPath(1)] = FileNode(<<"B">>)
  /\ \A q \in DOMAIN fs : fs[q].kind = "file" /\ q # RequestedPath(1) => q = <<"/", "f">>

\* request id is a read_notes call whose paths argument is an array
IsBatchRead(id) ==
  /\ id \in 1..Len(reqs)
  /\ reqs[id].name = "read_notes" /\ reqs[id].args.paths.t = "array"

RequestedPaths(id) == reqs[id].args.paths.xs

IsErrorEntry(text, notePath) ==
  startsWith(text, <<"Error reading note ">> \o notePath \o <<": ">>)

IsContentEntry(text, notePath) ==
  /\ validatePath(obsidianVaultDir, notePath).ok
  /\ startsWith(text, <<"# ">>
       \o relative(obsidianVaultDir, validatePath(obsidianVaultDir, notePath).val)
       \o CodeNewline \o CodeNewline)

\* the entries of an answered batch, one per requested path and in their order
EntriesInOrder(id) ==
  /\ Len(calls[id].results) = Len(RequestedPaths(id))
  /\ Response(id).content[1].text =
       JoinText(EntryTexts(calls[id].results), EntrySeparator)
  /\ \A i \in 1..Len(RequestedPaths(id)) :
       /\ \/ IsErrorEntry(calls[id].results[i].text, RequestedPaths(id)[i])
          \/ IsContentEntry(calls[id].results[i].text, RequestedPaths(id)[i])
       /\ ~validatePath(obsidianVaultDir, RequestedPaths(id)[i]).ok
          => calls[id].results[i].text =
               ReadErrorEntry(RequestedPaths(id)[i],
                              validatePath(obsidianVaultDir, RequestedPaths(id)[i]).val)

\* this step settles the read of entry i of batch id
SettlesEntry(id, i) ==
  /\ id \in DOMAIN calls /\ calls[id].pc = "reading"
  /\ i \in 1..Len(calls[id].results) /\ ~calls[id].results[i].settled
  /\ i \in 1..Len(calls'[id].results) /\ calls'[id].results[i].settled

\* C8: read_notes with an array of paths never answers with isError; its
\* text holds one entry per path in the order of the request; a rejected or
\* missing path gives the entry 'Error reading note <path>: ...' at its own
\* position, and a content entry holds the content of the file as read.
C8_InlineErrors ==
  /\ [](\A id \in CallIds :
          IsBatchRead(id) /\ Answered(id)
          => ~Response(id).isError /\ EntriesInOrder(id))
  /\ [][\A id \in CallIds : \A i \in 1..MaxBatch :
          SettlesEntry(id, i)
          => /\ ~IsFile(fs, calls[id].results[i].validPath)
                => IsErrorEntry(calls'[id].results[i].text, RequestedPaths(id)[i])
             /\ IsFile(fs, calls[id].results[i].validPath)
                => \/ calls'[id].results[i].text =
                        ReadContentEntry(calls[id].results[i].validPath,
                                         fs[calls[id].results[i].validPath].data)
                   \/ calls'[id].results[i].text =
                        ReadErrorEntry(RequestedPaths(id)[i],
                          ErrMsg("EACCES", "open", calls[id].results[i].validPath))]_vars

\* a batch of a missing note and an existing one: an error entry, then content
C8_Witness ==
  /\ IsBatchRead(1) /\ Answered(1)
  /\ RequestedPaths(1) = << <<"d", "/", "a">>, <<"a">> >>
  /\ IsErrorEntry(calls[1].results[1].text, <<"d", "/", "a">>)
  /\ calls[1].results[2].text =
       ReadContentEntry(<<"/", "v", "/", "a", ".", "m", "d">>, <<"A">>)

\* C9 as stated: the response of read_notes for n paths holds n content
\* blocks.
C9_BlockPerPath ==
  \A id \in CallIds :
    IsBatchRead(id) /\ Answered(id)
    => Len(Response(id).content) = Len(RequestedPaths(id))

\* C9: the response of read_notes for n paths holds one text block; its text
\* is the n entries, one per path, joined by the separator of line 306.
C9_OneJoinedBlock ==
  \A id \in CallIds :
    IsBatchRead(id) /\ Answered(id)
    => /\ Len(Response(id).content) = 1
       /\ Response(id).content[1].type = "text"
       /\ Len(calls[id].results) = Len(RequestedPaths(id))
       /\ Response(id).content[1].text =
            JoinText([i \in 1..Len(RequestedPaths(id)) |-> calls[id].results[i].text],
                     EntrySeparator)

\* a batch of two paths is answered
C9_Witness ==
  \E id \in CallIds :
    /\ IsBatchRead(id) /\ Answered(id)
    /\ Len(RequestedPaths(id)) = 2
    /\ Len(Response(id).content) = 1

\* C10: a request whose name is not one of the four tools is answered at
\* once, by a response with isError whose text is "Error: Unknown tool: "
\* and the name; receiving it touches no file and starts no operation.
C10_UnknownTool ==
  /\ [](\A id \in 1..Len(reqs) :
          reqs[id].name \notin ToolNames
          => /\ Answered(id) /\ calls[id].pc = "done"
             /\ Response(id) = Reply(id, TRUE, <<"Error: ", "Unknown tool: ", reqs[id].name>>))
  /\ [][Len(reqs') = Len(reqs) + 1 /\ reqs'[Len(reqs')].name \notin ToolNames
        => fs' = fs /\ Len(out') = Len(out) + 1]_vars

\* an unknown tool is called while a write is in flight
C10_Witness ==
  /\ Len(reqs) = 2 /\ reqs[2].name = "list_notes"
  /\ Answered(2) /\ ~Answered(1)
  /\ calls[1].pc = "writeFile"

----------------------------------------------------------------------------
(* Claims about the dispatcher, checked under Spec and SpecFair *)

\* the responses written for request id
ResponsesTo(id) == { k \in 1..Len(out) : out[k].id = id }

\* C11: every request received is answered, once its file-system operations
\* complete, and at no time are there two responses to one request or a
\* response to no request, whether the call succeeds, fails validation,
\* names an unknown tool or fails in its handler.
C11_ExactlyOneResponse ==
  /\ [](\A k \in 1..Len(out) : out[k].id \in 1..Len(reqs))
  /\ [](\A id \in CallIds : Cardinality(ResponsesTo(id)) <= 1)
  /\ \A id \in CallIds : (Len(reqs) >= id) ~> (Cardinality(ResponsesTo(id)) = 1)

\* two calls are answered, one with an error of its handler and one with a
\* success
C11_Witness ==
  /\ Len(reqs) = 2 /\ Len(out) = 2
  /\ out[1].id # out[2].id
  /\ \E k \in 1..2 : out[k].isError /\ reqs[out[k].id].name = "delete_note"
                     /\ reqs[out[k].id].args.path.t = "string"
  /\ \E k \in 1..2 : ~out[k].isError /\ reqs[out[k].id].name = "search_notes"

\* the argument fields of a known tool that its schema rejects
BadFields(name, args) ==
  CASE name = "write_note" ->
         (IF args.path.t # "string" THEN {"path"} ELSE {})
         \cup (IF args.content.t # "string" THEN {"content"} ELSE {})
         \cup (IF args.append.t \notin {"undefined", "boolean"} THEN {"append"} ELSE {})
    [] name = "delete_note" -> IF args.path.t # "string" THEN {"path"} ELSE {}
    [] name = "read_notes" -> IF args.paths.t # "array" THEN {"paths"} ELSE {}
    [] name = "search_notes" -> IF args.query.t # "string" THEN {"query"} ELSE {}
    [] OTHER -> {}

FailsValidation(req) == req.name \in ToolNames /\ BadFields(req.name, req.args) # {}

InvalidArgumentsOf(name) ==
  CASE name = "write_note" -> "Invalid arguments for write_note: "
    [] name = "delete_note" -> "Invalid arguments for delete_note: "
    [] name = "read_notes" -> "Invalid arguments for read_notes: "
    [] OTHER -> "Invalid arguments for search_notes: "

\* the handler of request id has resolved no path and started no operation
NothingStarted(id) ==
  /\ calls[id].pc = "done"
  /\ calls[id].validPath = <<>> /\ calls[id].results = <<>>
  /\ calls[id].dirPath = <<>> /\ calls[id].frames = <<>>

\* C12: a call to a known tool whose arguments fail the schema (a required
\* field missing or of the wrong type) is answered at once by an error
\* response that holds 'Invalid arguments for <tool>: ' and the validator's
\* issues, the first of them about a rejected field; no path is resolved, no
\* operation is started, and the file system and the other handlers are as
\* they were.
C12_ValidationError ==
  /\ [](\A id \in 1..Len(reqs) :
          FailsValidation(reqs[id])
          => /\ Answered(id) /\ Response(id).isError
             /\ Len(Response(id).content) = 1
             /\ Len(Response(id).content[1].text) > 2
             /\ Response(id).content[1].text[1] = "Error: "
             /\ Response(id).content[1].text[2] = InvalidArgumentsOf(reqs[id].name)
             /\ Response(id).content[1].text[3] \in BadFields(reqs[id].name, reqs[id].args)
             /\ NothingStarted(id))
  /\ [][Len(reqs') = Len(reqs) + 1 /\ FailsValidation(reqs'[Len(reqs')])
        => /\ fs' = fs
           /\ out' = Append(out, out'[Len(out')])
           /\ \A id \in DOMAIN calls : calls'[id] = calls[id]]_vars

\* a write_note whose path is a number and a read_notes without paths are
\* both refused
C12_Witness ==
  /\ Len(reqs) = 2 /\ Len(out) = 2
  /\ reqs[1].name = "write_note" /\ reqs[1].args.path = NumV
  /\ reqs[2].name = "read_notes" /\ reqs[2].args.paths = Undef
  /\ FailsValidation(reqs[1]) /\ FailsValidation(reqs[2])

\* the response written by this step
Written == out'[Len(out')]

\* a response is one text block, and it is marked isError exactly when its
\* text begins with "Error: "
WellFormed(r) ==
  /\ Len(r.content) = 1 /\ r.content[1].type = "text"
  /\ r.isError <=> Len(r.content[1].text) > 0 /\ r.content[1].text[1] = "Error: "

\* request id is a write_note or delete_note with valid arguments whose path
\* the guard rejects
GuardRejects(id) ==
  /\ reqs[id].name \in {"write_note", "delete_note"}
  /\ ~FailsValidation(reqs[id])
  /\ ~validatePath(obsidianVaultDir, reqs[id].args.path.s).ok

Without(f, p) == [q \in DOMAIN f \ {p} |-> f[q]]

FailedToDelete(r) ==
  /\ r.isError
  /\ Len(r.content[1].text) > 3
  /\ r.content[1].text[1] = "Error: "
  /\ r.content[1].text[2] = "Failed to delete note: "
  /\ r.content[1].text[3] \in {"ENOENT", "EISDIR", "ENOTDIR", "EACCES"}
  /\ r.content[1].text[5] = "unlink"

\* C14: the unlink of delete_note acts on the path the guard returned for the
\* request.  Where no file is, or the file cannot be removed, the response is
\* an error 'Failed to delete note: ' with the cause, and the file system is
\* unchanged; otherwise exactly that file is removed and the response names
\* its vault-relative path.
C14_DeleteNote ==
  [][\A id \in CallIds :
       Returns(id) /\ calls[id].pc = "unlink"
       => /\ calls[id].validPath = RequestedPath(id)
          /\ Written.id = id
          /\ ~IsFile(fs, RequestedPath(id))
             => /\ FailedToDelete(Written) /\ fs' = fs
                /\ Written.content[1].text[3] # "EACCES"
                   => Written.content[1].text[3] =
                        (IF RequestedPath(id) \in DOMAIN fs THEN "EISDIR" ELSE "ENOENT")
          /\ IsFile(fs, RequestedPath(id))
             => \/ /\ FailedToDelete(Written) /\ fs' = fs
                   /\ Written.content[1].text[3] = "EACCES"
                \/ /\ fs' = Without(fs, RequestedPath(id))
                   /\ Written = Reply(id, FALSE, <<"Successfully deleted note: ">>
                        \o relative(obsidianVaultDir, RequestedPath(id)))]_vars

\* a note is deleted, and a second delete of it finds nothing
C14_Witness ==
  /\ Len(reqs) = 2 /\ Len(out) = 2 /\ out[1].id = 1
  /\ reqs[1].name = "delete_note" /\ reqs[1].args.path = StrV(<<"a">>)
  /\ reqs[2] = reqs[1]
  /\ ~out[1].isError /\ FailedToDelete(out[2])
  /\ out[2].content[1].text[3] = "ENOENT"
  /\ RequestedPath(1) \notin DOMAIN fs

----------------------------------------------------------------------------
(* Claims about search_notes *)

IsSearch(id) == id \in DOMAIN calls /\ calls[id].name = "search_notes"

\* the names of the directories between the vault root and p
DirsAbove(p) ==
  LET segs == Split(relative(obsidianVaultDir, p))
  IN { segs[i] : i \in 1..(Len(segs) - 1) }

NotUnderHidden(p) == \A name \in DirsAbove(p) : name = <<>> \/ Head(name) # "."

\* the paths this step adds to the results of search id
Added(id) ==
  { calls'[id].results[k] : k \in (Len(calls[id].results) + 1)..Len(calls'[id].results) }

\* C15: every path that search_notes collects ends with '.md' and has no
\* directory above it, below the root, whose name begins with '.'; a path
\* collected from the directory just listed is a regular file; and no readdir
\* is issued on a directory whose name begins with '.' or that lies under one.
C15_OnlyVisibleNotes ==
  /\ [](\A id \in CallIds :
          IsSearch(id)
          => /\ \A k \in 1..Len(calls[id].results) :
                  /\ endsWith(calls[id].results[k], MD)
                  /\ NotUnderHidden(calls[id].results[k])
             /\ calls[id].pc = "readdir"
                => NotUnderHidden(calls[id].dirPath \o <<"/", "x">>))
  /\ [][\A id \in CallIds :
          IsSearch(id) /\ calls[id].pc = "readdir"
          => \A p \in Added(id) :
               dirname(p) = calls[id].dirPath => IsFile(fs, p)]_vars

\* in a vault with a hidden directory that holds a.md and a directory d/a.md,
\* a search for "a" answers with the one visible note a.md
C15_Witness ==
  /\ \E id \in CallIds :
       /\ IsSearch(id) /\ Answered(id) /\ ~Response(id).isError
       /\ calls[id].searchTerm = <<"a">>
       /\ calls[id].results = << <<"/", "v", "/", "a", ".", "m", "d">> >>
  /\ IsFile(fs, <<"/", "v", "/", ".", "h", "/", "a", ".", "m", "d">>)
  /\ IsDir(fs, <<"/", "v", "/", "d", "/", "a", ".", "m", "d">>)

\* SpecSearch: the search of request 1 has returned its results
Searched == 1 \in DOMAIN calls /\ calls[1].pc = "done" /\ ~out[1].isError

\* SpecSearch: the file name of the one note of the vault
TheNote ==
  lastComponent(CHOOSE q \in DOMAIN fs : Len(q) > 3 /\ SubSeq(q, 1, 3) = <<"/", "v", "/">>)

Found == calls[1].results # <<>>

\* q occurs in s, letters compared without their case
OccursFolded(q, s) ==
  \E k \in 0..Len(s) :
    /\ k + Len(q) <= Len(s)
    /\ \A j \in 1..Len(q) : LowerChar(s[k + j]) = LowerChar(q[j])

Stripped(name) == SubSeq(name, 1, Len(name) - 3)

\* C16: for a search term that is not classified as a regular expression,
\* the note is found if and only if the term, in lower case, occurs in the
\* note's lower-cased name without '.md' or in its lower-cased full file name.
C16_LiteralMatch ==
  Searched /\ ~isRegex(calls[1].searchTerm)
  => (Found <=> \/ OccursFolded(reqs[1].args.query.s, Stripped(TheNote))
                \/ OccursFolded(reqs[1].args.query.s, TheNote))

\* the term "M" finds the note a.md by its extension alone
C16_Witness ==
  /\ Searched /\ Found
  /\ reqs[1].args.query.s = <<"M">> \/ reqs[1].args.query.s = <<"m">>
  /\ TheNote = <<"a", ".", "m", "d">>
  /\ calls[1].results = << <<"/", "v", "/", "a", ".", "m", "d">> >>

\* the position of the last '/' of a term, 0 if it has none
LastSlash(term) ==
  IF \E k \in 1..Len(term) : term[k] = "/"
    THEN CHOOSE k \in 1..Len(term) :
           term[k] = "/" /\ \A j \in (k + 1)..Len(term) : term[j] # "/"
    ELSE 0

\* the term is /pattern/flags with flags drawn from g, i, m, u, y
Delimited(term) ==
  /\ Len(term) >= 2 /\ term[1] = "/" /\ LastSlash(term) >= 2
  /\ \A j \in (LastSlash(term) + 1)..Len(term) : term[j] \in {"g", "i", "m", "u", "y"}

\* what a delimited term finds: its regex tested on the stripped and the full
\* name, and the literal term where the regex does not compile
FoundAsRegex(term, name) ==
  IF RegExpThrows(SubSeq(term, 2, LastSlash(term) - 1),
                  SubSeq(term, LastSlash(term) + 1, Len(term)))
    THEN OccursFolded(term, Stripped(name)) \/ OccursFolded(term, name)
    ELSE \/ regexTest(SubSeq(term, 2, LastSlash(term) - 1),
                      SubSeq(term, LastSlash(term) + 1, Len(term)), Stripped(name))
         \/ regexTest(SubSeq(term, 2, LastSlash(term) - 1),
                      SubSeq(term, LastSlash(term) + 1, Len(term)), name)

\* C17: every term /pattern/ or /pattern/flags, with flags drawn from g, i,
\* m, u, y in any combination, is searched as a regular expression, and
\* every other term as a literal.
C17_Classification ==
  Searched
  => (Found <=>
        IF Delimited(reqs[1].args.query.s)
          THEN FoundAsRegex(reqs[1].args.query.s, TheNote)
          ELSE \/ OccursFolded(reqs[1].args.query.s, Stripped(TheNote))
               \/ OccursFolded(reqs[1].args.query.s, TheNote))

----------------------------------------------------------------------------
(* Claims about startup and the order of responses *)

\* the configured root names an existing directory
RootIsDirectory == vaultArg # <<>> /\ IsDir(fs, Key(resolve(vaultArg)))

\* C18: the process serves only with a configured root that startup found to
\* be an existing directory: with the root absent, missing, not a directory
\* or inaccessible, the start ends in the exit (process.exit(1)), which is
\* final, and no request is ever received; a request is received only while
\* serving with obsidianVaultDir the resolved root, a directory.  The start
\* always comes to one of the two ends.
C18_StartupGate ==
  /\ [](phase = "serving" \/ reqs # <<>>
        => /\ phase = "serving" /\ RootIsDirectory
           /\ obsidianVaultDir = resolve(vaultArg))
  /\ [][/\ phase = "boot" /\ ~RootIsDirectory => phase' \in {"boot", "exited"}
        /\ phase = "exited" => phase' = "exited" /\ reqs' = <<>> /\ out' = <<>>
        /\ phase = "serving" => phase' = "serving"]_vars
  /\ <>(phase # "boot")

\* the configured root is a file: the process has exited and served nothing
C18_Witness ==
  /\ vaultArg = <<"/", "f">> /\ IsFile(fs, vaultArg)
  /\ phase = "exited" /\ reqs = <<>>

\* C19: the responses are written in the order the requests arrived: a
\* response to an earlier request stands before the response to any later
\* request, also when the earlier handler waits for a slower operation.
C19_ArrivalOrder ==
  \A j, k \in 1..Len(out) : j < k => out[j].id < out[k].id

----------------------------------------------------------------------------
(* Claims about the guard in front of the file-system operations *)

\* lines 214, 259 and 292: the paths validatePath has returned in the call
\* of request id; the search_notes branch (lines 310-336) and findNotes
\* (lines 135-201) hold no call of validatePath
GuardedPaths(id) ==
  LET Returned(notePath) ==
        LET valid == validatePath(obsidianVaultDir, notePath)
        IN IF valid.ok THEN {valid.val} ELSE {}
  IN CASE calls[id].name \in {"write_note", "delete_note"}
            /\ reqs[id].args.path.t = "string" -> Returned(reqs[id].args.path.s)
       [] calls[id].name = "read_notes" ->
            UNION { Returned(calls[id].notePaths[i]) :
                      i \in 1..Len(calls[id].notePaths) }
       [] OTHER -> {}

\* the file-system operations the handler of request id has issued and that
\* have not settled: lines 218 (mkdir), 224 (readFile), 225, 232 and 236
\* (writeFile), 262 (unlink), 293 (readFile of one entry), 141 (readdir)
IssuedOps(id) ==
  LET call == calls[id]
  IN CASE call.pc = "mkdir" -> {[op |-> "mkdir", path |-> dirname(call.validPath)]}
       [] call.pc = "readFile" -> {[op |-> "readFile", path |-> call.validPath]}
       [] call.pc \in {"writeAppend", "writeFallback", "writeFile"} ->
            {[op |-> "writeFile", path |-> call.validPath]}
       [] call.pc = "unlink" -> {[op |-> "unlink", path |-> call.validPath]}
       [] call.pc = "reading" ->
            { [op |-> "readFile", path |-> call.results[i].validPath] :
                i \in { j \in 1..Len(call.results) : ~call.results[j].settled } }
       [] call.pc = "readdir" -> {[op |-> "readdir", path |-> call.dirPath]}
       [] OTHER -> {}

\* C20: every file-system operation a tool issues is on a path validatePath
\* has returned before in the same call (for the mkdir of write_note: on the
\* parent directory of that path); this holds for write_note, delete_note,
\* read_notes and search_notes alike.
C20_GuardBeforeEveryOp ==
  \A id \in DOMAIN calls :
    \A o \in IssuedOps(id) :
      \/ o.path \in GuardedPaths(id)
      \/ o.op = "mkdir" /\ \E p \in GuardedPaths(id) : o.path = dirname(p)

\* the same statement for the three tools that take a path: it holds, so the
\* operations outside the guard are the readdir calls of search_notes
C20_GuardedNoteTools ==
  \A id \in DOMAIN calls :
    calls[id].name # "search_notes" =>
      \A o \in IssuedOps(id) :
        \/ o.path \in GuardedPaths(id)
        \/ o.op = "mkdir" /\ \E p \in GuardedPaths(id) : o.path = dirname(p)

----------------------------------------------------------------------------
(* Claims about overlapping calls *)

\* request id is an append whose try block has written (lines 224-229)
Appended(id) ==
  /\ id \in DOMAIN calls /\ calls[id].name = "write_note" /\ calls[id].append
  /\ Answered(id) /\ ~Response(id).isError

\* C21: appends are not serialized.  The write of the try block stores the
\* content its call read earlier, followed by the new content, whatever the
\* file holds by then, so what another call appended in between is lost; and
\* the read of one append can settle while another append to the same note
\* waits between its read and its write.
C21_AppendNotSerialized ==
  [][\A id \in CallIds :
       /\ ReturnsSuccess(id) /\ calls[id].pc = "writeAppend"
          => /\ IsFile(fs', calls[id].validPath)
             /\ startsWith(fs'[calls[id].validPath].data, calls[id].existingContent)
             /\ endsWith(fs'[calls[id].validPath].data, reqs[id].args.content.s)
             /\ Len(fs'[calls[id].validPath].data) =
                  Len(calls[id].existingContent) + Len(AppendSeparator)
                    + Len(reqs[id].args.content.s)
       /\ (/\ id \in DOMAIN calls /\ calls[id].pc = "readFile"
           /\ calls'[id] # calls[id] /\ IsFile(fs, calls[id].validPath))
          => \/ calls'[id].pc = "writeFallback"
             \/ /\ calls'[id].pc = "writeAppend"
                /\ calls'[id].existingContent = fs[calls[id].validPath].data]_vars

\* two overlapping appends of "B" and of "A" to the note that holds "A" have
\* both read "A" and both reported success; the file holds one of the two
\* appended contents only
C21_Witness ==
  /\ Appended(1) /\ Appended(2)
  /\ calls[1].validPath = <<"/", "v", "/", "a", ".", "m", "d">>
  /\ calls[2].validPath = calls[1].validPath
  /\ calls[1].content = <<"B">> /\ calls[2].content = <<"A">>
  /\ calls[1].existingContent = <<"A">> /\ calls[2].existingContent = <<"A">>
  /\ fs[calls[1].validPath].data \in
       { <<"A">> \o AppendSeparator \o <<"B">>, <<"A">> \o AppendSeparator \o <<"A">> }

\* the reads of batch id that have not settled
PendingReads(id) ==
  { i \in 1..Len(calls[id].results) : ~calls[id].results[i].settled }

\* this step receives request id, a read_notes call with an array of paths
ReceivesBatch(id) ==
  /\ id \notin DOMAIN calls /\ id \in DOMAIN calls'
  /\ reqs'[id].name = "read_notes" /\ reqs'[id].args.paths.t = "array"

\* C22: a read_notes call issues the reads of all its accepted paths at once
\* (each is pending when the call is received), its reads settle one at a
\* time in any order, each at the position of its own path and leaving the
\* other entries as they are, and the call is answered exactly when no read
\* is pending; the answer is the entries joined in the order of the paths.
C22_BatchReads ==
  /\ [](\A id \in CallIds :
          IsBatchRead(id) /\ id \in DOMAIN calls
          => /\ Len(calls[id].results) = Len(RequestedPaths(id))
             /\ Answered(id) <=> PendingReads(id) = {}
             /\ \A i \in 1..Len(RequestedPaths(id)) \ PendingReads(id) :
                  \/ IsErrorEntry(calls[id].results[i].text, RequestedPaths(id)[i])
                  \/ IsContentEntry(calls[id].results[i].text, RequestedPaths(id)[i])
             /\ Answered(id)
                => Response(id).content[1].text =
                     JoinText([i \in 1..Len(RequestedPaths(id)) |->
                                 calls[id].results[i].text], EntrySeparator))
  /\ [][\A id \in CallIds :
          /\ ReceivesBatch(id)
             => \A i \in 1..Len(reqs'[id].args.paths.xs) :
                  ~calls'[id].results[i].settled
                    <=> validatePath(obsidianVaultDir, reqs'[id].args.paths.xs[i]).ok
          /\ \A i \in 1..MaxBatch :
               SettlesEntry(id, i)
               => \A j \in 1..Len(calls[id].results) \ {i} :
                    calls'[id].results[j] = calls[id].results[j]]_vars

\* of a batch of two accepted paths the second read has settled and the
\* first is pending: no answer is written yet
C22_Witness ==
  /\ IsBatchRead(1) /\ 1 \in DOMAIN calls
  /\ RequestedPaths(1) = << <<"a">>, <<"d", "/", "a">> >>
  /\ PendingReads(1) = {1}
  /\ IsErrorEntry(calls[1].results[2].text, <<"d", "/", "a">>)
  /\ out = <<>>

----------------------------------------------------------------------------
(* Claims about failures during the search *)

\* the response to a search whose readdir of dirPath failed
ScandirError(r, id, dirPath) ==
  \E code \in {"EACCES", "ENOENT", "ENOTDIR"} :
    r = [id |-> id, isError |-> TRUE,
         content |-> << [type |-> "text",
                         text |-> <<"Error: ">> \o ErrMsg(code, "scandir", dirPath)] >>]

\* this step answers search id with the notes of a walk that has come to its
\* end: no directory is left to list
WalkEnds(id, call, next) ==
  /\ next.dirPath = <<>>
  /\ Written = SearchReply(id, call.searchTerm, next.results)

\* C23: a readdir of the search walk that fails ends search_notes with an
\* error response that holds the message of the failed readdir alone and no
\* note of those collected before; a directory that cannot be listed always
\* ends the search so, and a search answers without an error only with the
\* notes of a walk that listed its last directory and has none left to list.
C23_NoPartialResults ==
  [][\A id \in CallIds :
       (/\ id \in DOMAIN calls /\ calls[id].pc = "readdir"
        /\ calls'[id] # calls[id])
       => /\ ~IsDir(fs, Key(calls[id].dirPath)) => Returns(id) /\ Written.isError
          /\ Returns(id) /\ Written.isError
             => /\ Written.id = id
                /\ ScandirError(Written, id, calls[id].dirPath)
                /\ out' = Append(out, Written)
          /\ Returns(id) /\ ~Written.isError
             => /\ IsDir(fs, Key(calls[id].dirPath))
                /\ \E entries \in Orderings(DirEntries(fs, Key(calls[id].dirPath))) :
                     WalkEnds(id, calls[id],
                              searchLoop(calls[id].searchTerm,
                                         <<Frame(calls[id].dirPath, entries)>>
                                           \o calls[id].frames,
                                         calls[id].results))]_vars

\* the search had collected the note a.md of the root when the readdir of
\* the directory d failed: the answer is the error, without the note
C23_Witness ==
  \E id \in CallIds :
    /\ IsSearch(id) /\ Answered(id)
    /\ calls[id].results = << <<"/", "v", "/", "a", ".", "m", "d">> >>
    /\ calls[id].dirPath = <<"/", "v", "/", "d">>
    /\ ScandirError(Response(id), id, calls[id].dirPath)

\* the term is classified as a regular expression and new RegExp rejects its
\* pattern or its flags
FailsToCompile(term) ==
  /\ isRegex(term) /\ LastSlash(term) >= 2
  /\ RegExpThrows(SubSeq(term, 2, LastSlash(term) - 1),
                  SubSeq(term, LastSlash(term) + 1, Len(term)))

\* C24: a search whose term is classified as a regular expression that does
\* not compile does not fail for it: the notes it collects are notes whose
\* file name, with or without '.md', contains the raw term without regard to
\* case (the term begins with '/', so these are none), its answer is the
\* success response made of them, and it answers with an error only when a
\* readdir of its walk failed.
C24_CompileFallback ==
  \A id \in CallIds :
    IsSearch(id) /\ FailsToCompile(calls[id].searchTerm)
    => /\ \A i \in 1..Len(calls[id].results) :
            \/ OccursFolded(calls[id].searchTerm,
                            Stripped(lastComponent(calls[id].results[i])))
            \/ OccursFolded(calls[id].searchTerm, lastComponent(calls[id].results[i]))
       /\ Answered(id) /\ ~Response(id).isError
          => Response(id) = SearchReply(id, reqs[id].args.query.s, calls[id].results)
       /\ Answered(id) /\ Response(id).isError
          => ScandirError(Response(id), id, calls[id].dirPath)

\* the search for "/[/" in a vault that holds the note a.md has tested the
\* note and answered that no note matches
C24_Witness ==
  \E id \in CallIds :
    /\ IsSearch(id) /\ Answered(id) /\ ~Response(id).isError
    /\ calls[id].searchTerm = <<"/", "[", "/">>
    /\ IsFile(fs, <<"/", "v", "/", "a", ".", "m", "d">>)
    /\ Response(id).content[1].text
         = <<"No notes found matching \"", "/", "[", "/", "\"">>

----------------------------------------------------------------------------
(* Claims about what write_note and delete_note do to the file system *)

\* the files of a file system, with their content
Files(f) == { <<q, f[q].data>> : q \in { x \in DOMAIN f : f[x].kind = "file" } }

\* the directories of a file system
Dirs(f) == { q \in DOMAIN f : f[q].kind = "dir" }

\* the pcs of write_note at which the note file is read or written
NoteFileSteps == {"readFile", "writeAppend", "writeFallback", "writeFile"}

\* C25: write_note creates the parent directories of the validated path
\* before it reads or writes the note: its first operation is the mkdir, made
\* while no file has been touched; the note file is read or written only
\* with the parent directory in place; the mkdir step itself writes no file;
\* and a failed mkdir ends the call with an error response and the file
\* system as it was.
C25_MkdirFirst ==
  /\ [](\A id \in CallIds :
          id \in DOMAIN calls /\ calls[id].name = "write_note"
            /\ calls[id].pc \in NoteFileSteps
          => IsDir(fs, Key(dirname(calls[id].validPath))))
  /\ [][\A id \in CallIds :
          /\ (id \notin DOMAIN calls /\ id \in DOMAIN calls'
                /\ calls'[id].name = "write_note" /\ calls'[id].pc # "done")
             => calls'[id].pc = "mkdir" /\ fs' = fs
          /\ (id \in DOMAIN calls /\ calls[id].pc = "mkdir" /\ calls'[id] # calls[id])
             => /\ Files(fs') = Files(fs) /\ Dirs(fs) \subseteq Dirs(fs')
                /\ \/ /\ Returns(id) /\ Written.isError /\ fs' = fs
                      /\ Written.content[1].text[4] = "mkdir"
                   \/ /\ calls'[id].pc \in {"readFile", "writeFile"} /\ out' = out
                      /\ IsDir(fs', Key(dirname(calls[id].validPath)))]_vars

\* the mkdir of the directory d for the note d/a failed: the call is answered
\* with the error, and neither the directory nor the note exists
C25_Witness ==
  /\ Len(reqs) = 1 /\ Answered(1) /\ Response(1).isError
  /\ calls[1].name = "write_note"
  /\ calls[1].validPath = <<"/", "v", "/", "d", "/", "a", ".", "m", "d">>
  /\ Response(1).content[1].text[4] = "mkdir"
  /\ <<"/", "v", "/", "d">> \notin DOMAIN fs
  /\ calls[1].validPath \notin DOMAIN fs

\* p lies below the directory vault: it continues vault after a separator
Below(vault, p) ==
  /\ p # vault
  /\ startsWith(p, IF vault = Slash THEN Slash ELSE vault \o Slash)

\* C26: every path validatePath returns, with its '.md' suffix, lies below
\* the vault root by whole path components: it is not the root with '.md'
\* appended and not a path in a sibling directory whose name begins with the
\* root's name.
C26_ReturnedBelowRoot ==
  Called /\ resolved.ok => Below(obsidianVaultDir, resolved.val)

\* request id is an append of write_note that has got past its mkdir
IsAppend(id) ==
  id \in DOMAIN calls /\ calls[id].name = "write_note" /\ calls[id].append

\* C27: an append never discards the content of an existing note.  The call
\* enters the fallback of the catch block, which writes the new content
\* alone, only when no file is at the path; and no step of the fallback
\* leaves a file that was there without the content it began with.
C27_AppendKeepsContent ==
  [][\A id \in CallIds :
       IsAppend(id) /\ calls'[id] # calls[id]
       => /\ calls[id].pc # "writeFallback" /\ calls'[id].pc = "writeFallback"
             => ~IsFile(fs, calls[id].validPath)
          /\ calls[id].pc = "writeFallback" /\ IsFile(fs, calls[id].validPath)
             => /\ IsFile(fs', calls[id].validPath)
                /\ startsWith(fs'[calls[id].validPath].data,
                              fs[calls[id].validPath].data)]_vars

\* this step receives request id, a write_note or delete_note with valid
\* arguments whose path the guard rejects
ReceivesRejected(id) ==
  /\ id \notin DOMAIN calls /\ id \in DOMAIN calls'
  /\ reqs'[id].name \in {"write_note", "delete_note"}
  /\ BadFields(reqs'[id].name, reqs'[id].args) = {}
  /\ ~validatePath(obsidianVaultDir, reqs'[id].args.path.s).ok

\* C28: a write_note or delete_note whose path the guard rejects leaves the
\* file system as it is: the step that receives it ends the call without a
\* file-system operation and changes no file and no directory, and an ended
\* call takes no further step.
C28_RejectedLeavesFs ==
  [][\A id \in CallIds :
       /\ ReceivesRejected(id)
          => /\ fs' = fs
             /\ calls'[id].pc = "done" /\ calls'[id].validPath = <<>>
             /\ Written.id = id /\ Written.isError
       /\ id \in DOMAIN calls /\ calls[id].pc = "done"
          => calls'[id] = calls[id]]_vars

\* a write_note and a delete_note of the path "../x" outside the vault "/v"
\* were both rejected, and the file system is the one of the start
C28_Witness ==
  /\ Len(reqs) = 2 /\ Len(out) = 2
  /\ reqs[1].name = "write_note" /\ reqs[2].name = "delete_note"
  /\ GuardRejects(1) /\ GuardRejects(2)
  /\ reqs[1].args.path.s = <<".", ".", "/", "x">>
  /\ reqs[2].args.path.s = <<".", ".", "/", "x">>
  /\ out[1].isError /\ out[2].isError
  /\ fs = BaseFs

----------------------------------------------------------------------------
(* SpecReadOnly: the server receives read_notes, search_notes and tools/list *)
(* requests only                                                             *)

\* lines 105-133: the names of the tools of the list, in its order
ToolList == <<"write_note", "delete_note", "read_notes", "search_notes">>

\* lines 104-133: the handler of tools/list returns the list at once
ListTools ==
  /\ Receive("tools/list", NoArgs)
  /\ calls' = SetCall(Len(reqs) + 1, [NewCall("tools/list") EXCEPT !.pc = "done"])
  /\ out' = Append(out, [id |-> Len(reqs) + 1, isError |-> FALSE, tools |-> ToolList])
  /\ UNCHANGED <<phase, vaultArg, obsidianVaultDir, fs, reqPath, resolved,
               componentInfoCache>>

InitReadOnly ==
  /\ phase = "serving"
  /\ vaultArg = <<"/", "v">>
  /\ obsidianVaultDir = vaultArg
  /\ fs \in InitialFileSystems
  /\ calls = <<>>
  /\ out = <<>>
  /\ reqs = <<>>
  /\ reqPath = <<>>
  /\ resolved = None
  /\ componentInfoCache = <<>>

NextReadOnly ==
  \/ CallReadNotes
  \/ CallSearchNotes
  \/ ListTools
  \/ \E id \in CallIds : ReaddirDone(id)
  \/ \E id \in CallIds : \E i \in 1..MaxBatch : ReadNoteDone(id, i)

SpecReadOnly == InitReadOnly /\ [][NextReadOnly]_vars

\* C29: read_notes, search_notes and tools/list are read-only: no step of a
\* server that receives only these calls, whatever their arguments and their
\* outcome, changes a file, a file's content or a directory, and every
\* answer to tools/list names the four tools write_note, delete_note,
\* read_notes and search_notes.
C29_ReadOnly ==
  /\ [][fs' = fs]_vars
  /\ [](\A k \in 1..Len(out) :
          reqs[out[k].id].name = "tools/list"
          => /\ Len(out[k].tools) = 4
             /\ { out[k].tools[i] : i \in 1..4 }
                  = {"write_note", "delete_note", "read_notes", "search_notes"})

\* a read_notes of the missing note "a" was answered with its error entry
\* and a tools/list with the list; the vault is as empty as at the start
C29_Witness ==
  /\ Len(out) = 2
  /\ reqs[1].name = "read_notes" /\ reqs[2].name = "tools/list"
  /\ RequestedPaths(1) = << <<"a">> >>
  /\ IsErrorEntry(calls[1].results[1].text, <<"a">>)
  /\ out[2].id = 2 /\ out[2].tools = ToolList
  /\ fs = BaseFs

----------------------------------------------------------------------------
(* SpecCache: the shadcn-ui server, shadcn-ui.ts, receiving                  *)
(* get_shadcn_component_info calls                                           *)

\* component names and project paths that requests carry
ComponentNames == { <<"c">>, <<"b", "_", "c">> }
ProjectPaths == { Undef, StrV(<<>>), StrV(<<"a">>), StrV(<<"a", "_", "b">>) }

ComponentInfoInputs ==
  { [name |-> StrV(n), projectPath |-> p] : n \in ComponentNames, p \in ProjectPaths }
  \cup { [name |-> Undef, projectPath |-> Undef],
         [name |-> StrV(<<"c">>), projectPath |-> NumV] }

\* shadcn-ui.ts:17-21: name is a string, projectPath a string when present
GetShadcnComponentInfoArgsSchema(args) ==
  LET error == Expect("name", args.name, "string")
                 \o (IF args.projectPath.t = "undefined" THEN <<>>
                     ELSE Expect("projectPath", args.projectPath, "string"))
  IN [success |-> error = <<>>, error |-> error,
      name |-> args.name.s, projectPath |-> args.projectPath.s]

\* shadcn-ui.ts:95: `${projectPath || 'default'}_${name}`; an absent and an
\* empty projectPath are both falsy
cacheKey(name, projectPath) ==
  (IF projectPath = <<>> THEN <<"d", "e", "f", "a", "u", "l", "t">> ELSE projectPath)
    \o <<"_">> \o name

\* shadcn-ui.ts:103-109; the props, variants and related components of lines
\* 118-230 are looked up by the name alone
componentData(name) ==
  [name |-> name,
   description |-> <<"A ">> \o name \o <<" component from shadcn/ui library">>,
   props |-> <<"props of ">> \o name,
   variants |-> <<"variants of ">> \o name,
   relatedComponents |-> <<"family of ">> \o name]

\* JSON.stringify of the component data
JSONstringify(data) ==
  <<"{\"name\":\"">> \o data.name
    \o <<"\",\"description\":\"">> \o data.description
    \o <<"\",\"props\":">> \o data.props
    \o <<",\"variants\":">> \o data.variants
    \o <<",\"relatedComponents\":">> \o data.relatedComponents \o <<"}">>

\* the locals of the handler of get_shadcn_component_info
InfoCall(pc, componentName, projectPath) ==
  [name |-> "get_shadcn_component_info", pc |-> pc,
   componentName |-> componentName, projectPath |-> projectPath]

\* shadcn-ui.ts:594-601
InfoReply(id, componentInfo) == Reply(id, FALSE, JSONstringify(componentInfo))

\* shadcn-ui.ts:583-592 and 95-100: the arguments are parsed and the cache
\* is looked up; a hit returns the cached data
GetComponentInfoStart(id, parsed) ==
  IF ~parsed.success
    THEN Respond(id, InfoCall("", <<>>, <<>>),
                 ErrorReply(id, <<"Invalid arguments for get_shadcn_component_info: ">>
                                  \o parsed.error))
    ELSE IF cacheKey(parsed.name, parsed.projectPath) \in DOMAIN componentInfoCache
      THEN Respond(id, InfoCall("", parsed.name, parsed.projectPath),
                   InfoReply(id, componentInfoCache[cacheKey(parsed.name,
                                                            parsed.projectPath)]))
      ELSE Suspend(id, InfoCall("build", parsed.name, parsed.projectPath))

\* shadcn-ui.ts:582-592: get_shadcn_component_info up to the first await of
\* getComponentInfo
CallGetComponentInfo ==
  \E args \in ComponentInfoInputs :
    /\ Receive("get_shadcn_component_info", args)
    /\ GetComponentInfoStart(Len(reqs) + 1, GetShadcnComponentInfoArgsSchema(args))
    /\ UNCHANGED <<phase, vaultArg, obsidianVaultDir, fs, reqPath, resolved,
                   componentInfoCache>>

\* shadcn-ui.ts:103-114: the data is built, stored under the key and returned
ComponentInfoBuilt(id) ==
  /\ id \in DOMAIN calls /\ calls[id].pc = "build"
  /\ componentInfoCache' =
       [k \in DOMAIN componentInfoCache
               \cup {cacheKey(calls[id].componentName, calls[id].projectPath)} |->
          IF k = cacheKey(calls[id].componentName, calls[id].projectPath)
            THEN componentData(calls[id].componentName)
            ELSE componentInfoCache[k]]
  /\ Respond(id, calls[id], InfoReply(id, componentData(calls[id].componentName)))
  /\ UNCHANGED <<phase, vaultArg, obsidianVaultDir, fs, reqs, reqPath, resolved>>

InitCache ==
  /\ phase = "serving"
  /\ vaultArg = <<>>
  /\ obsidianVaultDir = <<>>
  /\ fs = <<>>
  /\ calls = <<>>
  /\ out = <<>>
  /\ reqs = <<>>
  /\ reqPath = <<>>
  /\ resolved = None
  /\ componentInfoCache = <<>>

NextCache ==
  \/ CallGetComponentInfo
  \/ \E id \in CallIds : ComponentInfoBuilt(id)

SpecCache == InitCache /\ [][NextCache]_vars

\* C30: every successful answer to get_shadcn_component_info holds the
\* component info whose name is the name of its own request: the cache never
\* serves the entry of another (projectPath, name) pair.
C30_OwnComponentInfo ==
  \A k \in 1..Len(out) :
    ~out[k].isError
    => startsWith(out[k].content[1].text,
                  <<"{\"name\":\"">> \o reqs[out[k].id].args.name.s
                    \o <<"\",\"description\":\"">>)

============================================================================
